---- MODULE Spec2Model ----
(***************************************************************************)
(* A model of the cvv replicated key-value store (src/src/cvv): the        *)
(* version algebra of vtypes.py and the Replica of replica.py, with the    *)
(* message bus as a set of messages that may be delivered in any order     *)
(* and any number of times (at-least-once, unspecified ordering).          *)
(***************************************************************************)
EXTENDS Integers, Sequences, FiniteSets, TLC

\* ------------------------------------------------------------------ bounds
\* Local writes (create/update/delete) in a run of Spec, over all replicas.
MaxWrites == 2
\* Sync requests sent, and sync requests answered, in a run of Spec.
MaxSyncs == 1
\* Local writes in a run of SpecUpdates, over all replicas.
MaxUpdateWrites == 3
\* Local writes in a run of SpecSync, over all replicas.
MaxSyncWrites == 2
\* Writes made before a sync is requested, in the runs that end with a
\* sync request and its answer.
MaxRequestWrites == 3
\* The highest counter of a version handed to a VersionSet in the runs of
\* SpecVersionSet.
MaxCounter == 4

\* ------------------------------------------------------------ input domains
Replicas == {"AA", "BB", "CC"}
KeySeq == <<"k1", "k2">>
Keys == {KeySeq[i] : i \in 1..Len(KeySeq)}
Values == {"x"}
\* random.getrandbits(32): any cookie may come out, equal ones included.
Cookies == 0..(MaxSyncs - 1)

\* Python's None where a VersionVector or a VersionSet is expected.
None == [none |-> TRUE]
\* Python's None where a string is expected: the value of a tombstone, the
\* sync_replica of a replica that never asked for a sync.
NoneValue == "None"

Max(a, b) == IF a >= b THEN a ELSE b

\* ------------------------------------------------------------ VersionVector
\* A VersionVector is its dict v: a function from a subset of the replica
\* ids to counters. Equality is dict equality.
EmptyVV == [r \in {} |-> 0]

Version(replica_id, counter) == [replica_id |-> replica_id, counter |-> counter]

Get(vv, id) == IF id \in DOMAIN vv THEN vv[id] ELSE 0

Dominates(self, other) ==
    \A id \in (DOMAIN self) \cup (DOMAIN other) : ~(Get(self, id) < Get(other, id))

DominatesVersion(self, ver) == Get(self, ver.replica_id) >= ver.counter

UpdateVersion(self, ver) ==
    [id \in (DOMAIN self) \cup {ver.replica_id} |->
        IF id = ver.replica_id
        THEN (IF id \in DOMAIN self THEN Max(self[id], ver.counter) ELSE ver.counter)
        ELSE self[id]]

RECURSIVE UpdateFrom(_, _, _)
UpdateFrom(self, other, ids) ==
    IF ids = {} THEN self
    ELSE LET id == CHOOSE x \in ids : TRUE
         IN UpdateFrom(UpdateVersion(self, Version(id, other[id])), other, ids \ {id})

Update(self, other) == UpdateFrom(self, other, DOMAIN other)

GetVersion(self, replica_id) == Version(replica_id, Get(self, replica_id))

\* --------------------------------------------------------- VersionSetElement
NewElement == [prefix_max |-> 0, extras |-> {}]

RECURSIVE MergeExtras(_)
MergeExtras(e) ==
    IF (e.prefix_max + 1) \in e.extras
    THEN MergeExtras([prefix_max |-> e.prefix_max + 1,
                      extras |-> e.extras \ {e.prefix_max + 1}])
    ELSE e

\* An insert that takes a counter only when it extends the prefix and
\* forgets one that arrives ahead of a gap.
ElementInsertInOrder(e, version) ==
    IF version = e.prefix_max + 1
    THEN MergeExtras([prefix_max |-> version, extras |-> e.extras])
    ELSE e

ElementInsert(e, version) ==
    IF version <= e.prefix_max THEN e
    ELSE IF version = e.prefix_max + 1
         THEN MergeExtras([prefix_max |-> version, extras |-> e.extras \ {version}])
         ELSE [e EXCEPT !.extras = @ \cup {version}]

\* An update_prefix_upper_bound that raises the prefix and keeps the extras
\* it has.
UpdatePrefixUpperBoundUnfiltered(e, version) ==
    IF version > e.prefix_max
    THEN [prefix_max |-> version, extras |-> e.extras]
    ELSE e

UpdatePrefixUpperBound(e, version) ==
    IF version > e.prefix_max
    THEN MergeExtras([prefix_max |-> version,
                      extras |-> {x \in e.extras : x > version}])
    ELSE e

InsertExtras(e, extras) ==
    MergeExtras([prefix_max |-> e.prefix_max,
                 extras |-> {x \in e.extras \cup extras : x > e.prefix_max}])

\* ---------------------------------------------------------------- VersionSet
\* A VersionSet is a function from every replica id to its element; an id
\* missing from the dict v reads as a fresh element (_get_element).
EmptyVS == [r \in Replicas |-> NewElement]

VSGetVersion(self, replica_id) == Version(replica_id, self[replica_id].prefix_max)

\* A get_gcp that takes the highest counter of the element, extras included.
GetGcpHighest(self) ==
    [id \in {r \in Replicas : self[r].prefix_max > 0 \/ self[r].extras # {}} |->
        CHOOSE n \in {self[id].prefix_max} \cup self[id].extras :
            \A x \in self[id].extras : x <= n /\ self[id].prefix_max <= n]

GetGcp(self) ==
    [id \in {r \in Replicas : self[r].prefix_max > 0} |-> self[id].prefix_max]

HasVersion(self, ver) ==
    \/ ver.counter <= self[ver.replica_id].prefix_max
    \/ ver.counter \in self[ver.replica_id].extras

\* dominates_vv that asks only whether the set holds the versions the vector
\* names, gaps below them or not.
DominatesVVByMembership(self, vv) ==
    \A id \in DOMAIN vv : HasVersion(self, Version(id, vv[id]))

DominatesVV(self, vv) == Dominates(GetGcp(self), vv)

InsertVersion(self, ver) ==
    [self EXCEPT ![ver.replica_id] = ElementInsert(@, ver.counter)]

Merge(self, other) ==
    [id \in Replicas |->
        InsertExtras(UpdatePrefixUpperBound(self[id], other[id].prefix_max),
                     other[id].extras)]

MergeOneVersion(self, ver) ==
    [self EXCEPT ![ver.replica_id] = UpdatePrefixUpperBound(@, ver.counter)]

\* ------------------------------------------------------------- ObjectVersion
\* An ObjectVersion whose timestamp names its own version and nothing the
\* writer had seen.
ObjectVersionOwnTimestamp(version, timestamp, value) ==
    [version |-> version, timestamp |-> UpdateVersion(EmptyVV, version),
     value |-> value]

ObjectVersion(version, timestamp, value) ==
    [version |-> version, timestamp |-> timestamp, value |-> value]

\* An ObjectRecord is its list of versions; the store holds no record for a
\* key exactly when the list is empty (put is never given an empty record).
NoRecord == <<>>

\* A discard that looks at the first version only, however many versions
\* the record holds.
DiscardTimestampOfFirst(versions, vv) ==
    IF Len(versions) >= 1 /\ DominatesVersion(vv, versions[1].version)
    THEN [versions EXCEPT ![1].timestamp = None]
    ELSE versions

\* A discard that asks only whether the record holds one version, dominated
\* by vv or not.
DiscardTimestampOfSole(versions, vv) ==
    IF Len(versions) = 1
    THEN <<[versions[1] EXCEPT !.timestamp = None]>>
    ELSE versions

\* discard_timestamp_for_replacement_vv
DiscardTimestampForReplacementVV(versions, vv) ==
    IF Len(versions) = 1 /\ DominatesVersion(vv, versions[1].version)
    THEN <<[versions[1] EXCEPT !.timestamp = None]>>
    ELSE versions

\* ------------------------------------------------- _filter_visible_versions
\* A first loop that keeps the versions visible already dominates and never
\* latches visible forward.
RECURSIVE FilterStep1VisibleOnly(_, _, _, _, _, _)
FilterStep1VisibleOnly(versions, i, knowledge, visible, committed_visible, acc) ==
    IF i > Len(versions)
    THEN [ok |-> TRUE, visible |-> visible, versions |-> acc]
    ELSE FilterStep1VisibleOnly(versions, i + 1, knowledge, visible, committed_visible,
            IF DominatesVersion(visible, versions[i].version)
            THEN Append(acc, versions[i]) ELSE acc)

\* First loop: the versions that are visible, latching visible forward by the
\* timestamp of every version whose timestamp knowledge dominates.
RECURSIVE FilterStep1(_, _, _, _, _, _)
FilterStep1(versions, i, knowledge, visible, committed_visible, acc) ==
    IF i > Len(versions)
    THEN [ok |-> TRUE, visible |-> visible, versions |-> acc]
    ELSE LET ov == versions[i] IN
         IF DominatesVersion(visible, ov.version)
         THEN FilterStep1(versions, i + 1, knowledge, visible, committed_visible,
                          Append(acc, ov))
         ELSE IF DominatesVersion(committed_visible, ov.version) \/ ov.timestamp = None
              THEN [ok |-> FALSE, visible |-> visible, versions |-> acc]
              ELSE IF DominatesVV(knowledge, ov.timestamp)
                   THEN FilterStep1(versions, i + 1, knowledge,
                                    Update(visible, ov.timestamp), committed_visible,
                                    Append(acc, ov))
                   ELSE FilterStep1(versions, i + 1, knowledge, visible,
                                    committed_visible, acc)

\* A second loop that takes the first visible version to replace all others.
FilterStep2KeepFirst(vs, i, j, gone) == [ok |-> TRUE, gone |-> 2..Len(vs)]

\* A second loop that finds no version replaced.
FilterStep2KeepAll(vs, i, j, gone) == [ok |-> TRUE, gone |-> {}]

\* A second loop that drops a version only for a version of another replica.
FilterStep2OtherReplicas(vs, i, j, gone) ==
    [ok |-> TRUE,
     gone |-> {y \in 1..Len(vs) : \E x \in 1..Len(vs) :
                  /\ vs[x].version.replica_id # vs[y].version.replica_id
                  /\ vs[x].timestamp # None
                  /\ DominatesVersion(vs[x].timestamp, vs[y].version)}]

\* Second loop: the pairwise comparison; gone holds the indices set to None.
RECURSIVE FilterStep2(_, _, _, _)
FilterStep2(vs, i, j, gone) ==
    IF i > Len(vs) THEN [ok |-> TRUE, gone |-> gone]
    ELSE IF i \in gone \/ j > Len(vs) THEN FilterStep2(vs, i + 1, i + 2, gone)
    ELSE IF j \in gone THEN FilterStep2(vs, i, j + 1, gone)
    ELSE IF vs[i].timestamp = None \/ vs[j].timestamp = None
         THEN [ok |-> FALSE, gone |-> gone]
    ELSE IF DominatesVersion(vs[i].timestamp, vs[j].version)
         THEN FilterStep2(vs, i, j + 1, gone \cup {j})
    ELSE IF DominatesVersion(vs[j].timestamp, vs[i].version)
         THEN FilterStep2(vs, i + 1, i + 2, gone \cup {i})
    ELSE FilterStep2(vs, i, j + 1, gone)

\* Third loop: the values and the version vector of the survivors.
RECURSIVE FilterStep3(_, _, _, _, _)
FilterStep3(vs, gone, i, vv, values) ==
    IF i > Len(vs) THEN [ok |-> TRUE, vv |-> vv, values |-> values]
    ELSE IF i \in gone THEN FilterStep3(vs, gone, i + 1, vv, values)
    ELSE IF GetVersion(vv, vs[i].version.replica_id).counter # 0
         THEN [ok |-> FALSE, vv |-> vv, values |-> values]
    ELSE FilterStep3(vs, gone, i + 1, UpdateVersion(vv, vs[i].version),
                     Append(values, vs[i].value))

\* What _filter_visible_versions returns once its loops are done: s1 is the
\* outcome of the first loop, s3 of the third.
FilterResult(s1, s3) ==
    [ok |-> s3.ok, visible |-> s1.visible, vv |-> s3.vv, values |-> s3.values]

FilterFailed(visible) == [ok |-> FALSE, visible |-> visible, vv |-> EmptyVV, values |-> <<>>]

\* The third loop, run on the outcome s2 of the second.
FilterAfterStep2(s1, s2) ==
    IF ~s2.ok THEN FilterFailed(s1.visible)
    ELSE FilterResult(s1, FilterStep3(s1.versions, s2.gone, 1, EmptyVV, <<>>))

\* The second and third loops, run on the outcome s1 of the first.
FilterAfterStep1(s1) ==
    IF ~s1.ok THEN FilterFailed(s1.visible)
    ELSE FilterAfterStep2(s1, FilterStep2(s1.versions, 1, 2, {}))

\* The result of _filter_visible_versions on a record: ok is FALSE when one
\* of its assertions fails, visible is self.visible as the call leaves it,
\* vv and values are the returned pair.
FilterVisibleVersions(versions, knowledge, visible, committed_visible) ==
    IF ~(DominatesVV(knowledge, visible) /\ Dominates(visible, committed_visible))
    THEN FilterFailed(visible)
    ELSE FilterAfterStep1(
            FilterStep1(versions, 1, knowledge, visible, committed_visible, <<>>))

\* ------------------------------------------------------------ _insert_object
\* The state one replica operation works on and leaves behind: the record of
\* the key (versions), whether it was put to the store, and the three
\* version structures. ok is FALSE when an assertion failed; the fields then
\* hold what the operation had changed before it raised.
OpState(ok, put, versions, knowledge, visible, committed_visible) ==
    [ok |-> ok, put |-> put, versions |-> versions, knowledge |-> knowledge,
     visible |-> visible, committed_visible |-> committed_visible]

RestoreTimestamps(versions, committed_visible) ==
    [i \in 1..Len(versions) |->
        IF versions[i].timestamp = None
        THEN [versions[i] EXCEPT !.timestamp = committed_visible]
        ELSE versions[i]]

\* A last loop that keeps nothing but the version just inserted.
RetainNewestVersion(versions, visible_versions, visible) ==
    <<versions[Len(versions)]>>

\* A last loop that keeps the surviving visible versions and nothing else.
RetainVisibleVersions(versions, visible_versions, visible) ==
    LET Keep(ov) == ov.version = GetVersion(visible_versions, ov.version.replica_id)
    IN SelectSeq(versions, Keep)

\* The versions the last loop of _insert_object keeps.
RetainVersions(versions, visible_versions, visible) ==
    LET Keep(ov) ==
            \/ ov.version = GetVersion(visible_versions, ov.version.replica_id)
            \/ ~DominatesVersion(visible, ov.version)
    IN SelectSeq(versions, Keep)

\* self.committed_visible.update(self.visible), the last line of _insert_object
CommitVisibleSkipped(committed_visible, visible) == committed_visible

CommitVisible(committed_visible, visible) == Update(committed_visible, visible)

\* _insert_object from its last loop on: fv is what _filter_visible_versions
\* gave for the appended record, retained the versions the loop keeps.
InsertRetained(versions, knowledge, committed_visible, fv, retained) ==
    IF ~fv.ok \/ Len(retained) = 0
    THEN OpState(FALSE, FALSE, versions, knowledge, fv.visible, committed_visible)
    ELSE OpState(TRUE, TRUE, DiscardTimestampForReplacementVV(retained, fv.visible),
                 knowledge, fv.visible, CommitVisible(committed_visible, fv.visible))

InsertFiltered(versions, appended, knowledge, committed_visible, fv) ==
    InsertRetained(versions, knowledge, committed_visible, fv,
                   RetainVersions(appended, fv.vv, fv.visible))

\* _insert_object once obj_ver is appended and its version is in knowledge.
InsertAppended(versions, appended, obj_ver, knowledge, visible, committed_visible) ==
    InsertFiltered(versions, appended, knowledge, committed_visible,
        FilterVisibleVersions(appended, knowledge,
            IF DominatesVV(knowledge, obj_ver.timestamp)
            THEN Update(visible, obj_ver.timestamp)
            ELSE visible,
            committed_visible))

InsertObject(versions, obj_ver, knowledge, visible, committed_visible) ==
    IF HasVersion(knowledge, obj_ver.version) \/ obj_ver.timestamp = None
    THEN OpState(FALSE, FALSE, versions, knowledge, visible, committed_visible)
    ELSE InsertAppended(versions,
            Append(RestoreTimestamps(versions, committed_visible), obj_ver),
            obj_ver, InsertVersion(knowledge, obj_ver.version), visible,
            committed_visible)

\* -------------------------------------------------------------- _local_update
\* The outcome of a client call: how it returned ("ok" or the exception), the
\* state it leaves, the messages it broadcast and the version it returned.
Outcome(result, st, sent, ver) ==
    [result |-> result, st |-> st, sent |-> sent, ver |-> ver]

UpdateMessage(sender, key, obj_ver) ==
    [sender |-> sender, key |-> key, obj_ver |-> obj_ver]

NoVersion == Version("", 0)

\* A _local_update that stores the version and tells no other replica.
LocalInsertedNoBroadcast(self, key, obj_ver, st) ==
    Outcome(IF st.ok THEN "ok" ELSE "AssertionError", st, {}, obj_ver.version)

\* _local_update after _insert_object has left st.
LocalInserted(self, key, obj_ver, st) ==
    IF ~st.ok THEN Outcome("AssertionError", st, {}, NoVersion)
    ELSE IF ~Dominates(st.committed_visible, obj_ver.timestamp)
    THEN Outcome("AssertionError", [st EXCEPT !.ok = FALSE], {}, NoVersion)
    ELSE Outcome("ok", st, {UpdateMessage(self, key, obj_ver)}, obj_ver.version)

LocalInsert(self, versions, key, obj_ver, knowledge, visible, committed_visible) ==
    LocalInserted(self, key, obj_ver,
        InsertObject(versions, obj_ver, knowledge, visible, committed_visible))

\* The new version: the replica's own counter in knowledge, plus one.
NextVersion(self, knowledge) == Version(self, VSGetVersion(knowledge, self).counter + 1)

\* A _local_update that writes whatever dependent_versions the caller gave.
LocalFilteredUnchecked(self, versions, key, value, dependent_versions, knowledge, committed_visible, fv) ==
    LocalInsert(self, versions, key,
        ObjectVersion(NextVersion(self, knowledge),
                      UpdateVersion(fv.visible, NextVersion(self, knowledge)), value),
        knowledge, fv.visible, committed_visible)

\* A _local_update that compares dependent_versions with the visible
\* versions first and looks for versions from the future after that.
LocalFilteredCompareFirst(self, versions, key, value, dependent_versions, knowledge, committed_visible, fv) ==
    IF fv.vv # dependent_versions
    THEN Outcome("ConcurrentUpdate",
                 OpState(TRUE, FALSE, versions, knowledge, fv.visible, committed_visible),
                 {}, NoVersion)
    ELSE IF ~Dominates(fv.visible, dependent_versions)
    THEN Outcome("ValueError",
                 OpState(TRUE, FALSE, versions, knowledge, fv.visible, committed_visible),
                 {}, NoVersion)
    ELSE LocalInsert(self, versions, key,
            ObjectVersion(NextVersion(self, knowledge),
                          UpdateVersion(fv.visible, NextVersion(self, knowledge)), value),
            knowledge, fv.visible, committed_visible)

\* A _local_update that issues its version before it compares the dependent
\* versions, so that a call that fails has issued one.
LocalFilteredIssueFirst(self, versions, key, value, dependent_versions, knowledge, committed_visible, fv) ==
    IF ~fv.ok
    THEN Outcome("AssertionError",
                 OpState(FALSE, FALSE, versions, knowledge, fv.visible, committed_visible),
                 {}, NoVersion)
    ELSE IF ~Dominates(fv.visible, dependent_versions)
    THEN Outcome("ValueError",
                 OpState(TRUE, FALSE, versions,
                         InsertVersion(knowledge, NextVersion(self, knowledge)),
                         fv.visible, committed_visible),
                 {}, NextVersion(self, knowledge))
    ELSE IF fv.vv # dependent_versions
    THEN Outcome("ConcurrentUpdate",
                 OpState(TRUE, FALSE, versions,
                         InsertVersion(knowledge, NextVersion(self, knowledge)),
                         fv.visible, committed_visible),
                 {}, NextVersion(self, knowledge))
    ELSE LocalInsert(self, versions, key,
            ObjectVersion(NextVersion(self, knowledge),
                          UpdateVersion(fv.visible, NextVersion(self, knowledge)), value),
            knowledge, fv.visible, committed_visible)

\* _local_update after _filter_visible_versions has returned fv.
LocalFiltered(self, versions, key, value, dependent_versions, knowledge, committed_visible, fv) ==
    IF ~fv.ok
    THEN Outcome("AssertionError",
                 OpState(FALSE, FALSE, versions, knowledge, fv.visible, committed_visible),
                 {}, NoVersion)
    ELSE IF ~Dominates(fv.visible, dependent_versions)
    THEN Outcome("ValueError",
                 OpState(TRUE, FALSE, versions, knowledge, fv.visible, committed_visible),
                 {}, NoVersion)
    ELSE IF fv.vv # dependent_versions
    THEN Outcome("ConcurrentUpdate",
                 OpState(TRUE, FALSE, versions, knowledge, fv.visible, committed_visible),
                 {}, NoVersion)
    ELSE IF ~(/\ DominatesVV(knowledge, fv.visible)
              /\ VSGetVersion(knowledge, self) = GetVersion(fv.visible, self)
              /\ Dominates(fv.visible, committed_visible)
              /\ GetVersion(fv.visible, self) = GetVersion(committed_visible, self))
    THEN Outcome("AssertionError",
                 OpState(FALSE, FALSE, versions, knowledge, fv.visible, committed_visible),
                 {}, NoVersion)
    ELSE LocalInsert(self, versions, key,
            ObjectVersion(NextVersion(self, knowledge),
                          UpdateVersion(fv.visible, NextVersion(self, knowledge)), value),
            knowledge, fv.visible, committed_visible)

LocalUpdate(self, versions, key, value, dependent_versions, knowledge, visible, committed_visible) ==
    LocalFiltered(self, versions, key, value, dependent_versions, knowledge,
        committed_visible,
        FilterVisibleVersions(versions, knowledge, visible, committed_visible))

\* ------------------------------------------------------------------- state
VARIABLES
    db,                 \* db[r][k]: the versions of the record of key k at r
    knowledge,          \* knowledge[r]: VersionSet
    visible,            \* visible[r]: VersionVector
    committed_visible,  \* committed_visible[r]: VersionVector
    sync,               \* sync[r]: the sync requestor state of r
    updates,            \* the UpdateMessages broadcast so far
    requests,           \* the SyncRequestMessages sent so far
    responses,          \* the replies sent so far, one sequence per request handled,
                        \* with what the responder read when it sent them
    delivered,          \* delivered[r]: versions whose UpdateMessage r was given
    reply_log,          \* reply_log[r]: the replies r took in its current sync
    in_order            \* every sync reply was so far taken in the order sent

vars == <<db, knowledge, visible, committed_visible, sync, updates, requests,
          responses, delivered, reply_log, in_order>>

replicaVars == <<db, knowledge, visible, committed_visible, sync>>

\* No reply taken yet: the first one is expected next, from any response.
NoReplies == [batch |-> None, next |-> 1]

SyncIdle ==
    [sync_in_progress |-> FALSE, sync_replica |-> NoneValue, sync_cookie |-> 0,
     sync_replica_visible |-> None, sync_replica_knowledge |-> None]

\* Replica.__init__
Init ==
    /\ db = [r \in Replicas |-> [k \in Keys |-> NoRecord]]
    /\ knowledge = [r \in Replicas |-> EmptyVS]
    /\ committed_visible = [r \in Replicas |-> EmptyVV]
    /\ visible = [r \in Replicas |-> EmptyVV]
    /\ sync = [r \in Replicas |-> SyncIdle]
    /\ updates = {}
    /\ requests = {}
    /\ responses = {}
    /\ delivered = [r \in Replicas |-> {}]
    /\ reply_log = [r \in Replicas |-> NoReplies]
    /\ in_order = TRUE

RECURSIVE SumCounters(_)
SumCounters(ids) ==
    IF ids = {} THEN 0
    ELSE LET id == CHOOSE x \in ids : TRUE
         IN knowledge[id][id].prefix_max + SumCounters(ids \ {id})

\* The number of local writes made so far, over all replicas.
TotalWrites == SumCounters(Replicas)

\* ---------------------------------------------------------------- Replica.read
ReadTuple(dependent_versions, values) ==
    [dependent_versions |-> dependent_versions, values |-> values]

\* A read that returns the visible versions as they are, tombstones too.
ReadFilteredWithTombstones(fv) ==
    [result |-> IF fv.ok THEN "ok" ELSE "AssertionError",
     tuple |-> IF fv.ok THEN ReadTuple(fv.vv, fv.values) ELSE ReadTuple(EmptyVV, <<>>),
     visible |-> fv.visible]

\* A read that returns the values without the versions they depend on.
ReadFilteredNoVersions(fv) ==
    [result |-> IF fv.ok THEN "ok" ELSE "AssertionError",
     tuple |-> IF fv.ok /\ \E i \in 1..Len(fv.values) : fv.values[i] # NoneValue
               THEN ReadTuple(EmptyVV, fv.values)
               ELSE ReadTuple(EmptyVV, <<>>),
     visible |-> fv.visible]

\* read once _filter_visible_versions has returned fv.
ReadFiltered(fv) ==
    [result |-> IF fv.ok THEN "ok" ELSE "AssertionError",
     tuple |-> IF fv.ok /\ \E i \in 1..Len(fv.values) : fv.values[i] # NoneValue
               THEN ReadTuple(fv.vv, fv.values)
               ELSE ReadTuple(EmptyVV, <<>>),
     visible |-> fv.visible]

\* What read(key) does at replica r: the tuple it returns and visible after it.
ReadOutcome(r, key) ==
    IF db[r][key] = NoRecord
    THEN [result |-> "ok", tuple |-> ReadTuple(EmptyVV, <<>>), visible |-> visible[r]]
    ELSE ReadFiltered(FilterVisibleVersions(db[r][key], knowledge[r], visible[r],
                                            committed_visible[r]))

Read(r, key) ==
    /\ visible' = [visible EXCEPT ![r] = ReadOutcome(r, key).visible]
    /\ UNCHANGED <<db, knowledge, committed_visible, sync, updates, requests,
                   responses, delivered, reply_log, in_order>>

\* ---------------------------------------------- Replica.create/update/delete
Unchanged(r, ok, vis) ==
    OpState(ok, FALSE, NoRecord, knowledge[r], vis, committed_visible[r])

\* A create that takes a visible tombstone for a value.
CreateFilteredAnyVisible(r, key, value, fv) ==
    IF fv.values # <<>>
    THEN Outcome("DuplicateKey", Unchanged(r, TRUE, fv.visible), {}, NoVersion)
    ELSE LocalUpdate(r, db[r][key], key, value, fv.vv, knowledge[r], fv.visible,
                     committed_visible[r])

\* create on a key that has a record, once the record is filtered.
CreateFiltered(r, key, value, fv) ==
    IF ~fv.ok
    THEN Outcome("AssertionError", Unchanged(r, FALSE, fv.visible), {}, NoVersion)
    ELSE IF \E i \in 1..Len(fv.values) : fv.values[i] # NoneValue
    THEN Outcome("DuplicateKey", Unchanged(r, TRUE, fv.visible), {}, NoVersion)
    ELSE LocalUpdate(r, db[r][key], key, value, fv.vv, knowledge[r], fv.visible,
                     committed_visible[r])

CreateOutcome(r, key, value) ==
    IF db[r][key] # NoRecord
    THEN CreateFiltered(r, key, value,
            FilterVisibleVersions(db[r][key], knowledge[r], visible[r],
                                  committed_visible[r]))
    ELSE LocalUpdate(r, NoRecord, key, value, EmptyVV, knowledge[r], visible[r],
                     committed_visible[r])

\* An update that writes the first version of a key that has no record.
UpdateOutcomeUpsert(r, key, value, dependent_versions) ==
    LocalUpdate(r, db[r][key], key, value, dependent_versions, knowledge[r],
                visible[r], committed_visible[r])

UpdateOutcome(r, key, value, dependent_versions) ==
    IF db[r][key] = NoRecord
    THEN Outcome("NoSuchKey", Unchanged(r, TRUE, visible[r]), {}, NoVersion)
    ELSE LocalUpdate(r, db[r][key], key, value, dependent_versions, knowledge[r],
                     visible[r], committed_visible[r])

\* A delete that fails on a key without a record, as update does.
DeleteOutcomeNoSuchKey(r, key, dependent_versions) ==
    UpdateOutcome(r, key, NoneValue, dependent_versions)

DeleteOutcome(r, key, dependent_versions) ==
    IF db[r][key] # NoRecord
    THEN LocalUpdate(r, db[r][key], key, NoneValue, dependent_versions, knowledge[r],
                     visible[r], committed_visible[r])
    ELSE Outcome("ok", Unchanged(r, TRUE, visible[r]), {}, NoVersion)

\* update_lock once create, update or delete has returned or raised: each
\* acquires it, and releases it in a finally clause, whatever the result.
UpdateLockHeldAfter(result) == FALSE

\* The state of replica r after an operation on key that leaves st.
Install(r, key, st) ==
    /\ db' = IF st.put THEN [db EXCEPT ![r][key] = st.versions] ELSE db
    /\ knowledge' = [knowledge EXCEPT ![r] = st.knowledge]
    /\ visible' = [visible EXCEPT ![r] = st.visible]
    /\ committed_visible' = [committed_visible EXCEPT ![r] = st.committed_visible]

\* FakeMessageBus.broadcast: the message is kept for every other member.
Broadcast(sent) == updates' = updates \cup sent

\* The versions of the surviving visible siblings of key at r.
VisibleDeps(r, key) ==
    FilterVisibleVersions(db[r][key], knowledge[r], visible[r],
                          committed_visible[r]).vv

\* The dependent versions a client calls update or delete with at r: those
\* a read of the key returns now (read), the versions of the surviving
\* siblings (tombstones included), the empty vector, and a vector from the
\* future.
DepInputsOf(r, key, read) ==
    {read, VisibleDeps(r, key), EmptyVV,
     UpdateVersion(read, Version(r, knowledge[r][r].prefix_max + 1))}

DepInputs(r, key) == DepInputsOf(r, key, ReadOutcome(r, key).tuple.dependent_versions)

\* A client call at r on key ends with outcome out.
Finish(r, key, out) ==
    /\ Install(r, key, out.st)
    /\ Broadcast(out.sent)
    /\ UNCHANGED <<sync, requests, responses, delivered, reply_log, in_order>>

Create(r, key, value) == Finish(r, key, CreateOutcome(r, key, value))

UpdateOp(r, key, value, dependent_versions) ==
    Finish(r, key, UpdateOutcome(r, key, value, dependent_versions))

Delete(r, key, dependent_versions) ==
    Finish(r, key, DeleteOutcome(r, key, dependent_versions))

\* ------------------------------------------------------------ _process_update
\* The store and the version structures of replica r.
ReplicaState(r) ==
    [db |-> db[r], knowledge |-> knowledge[r], visible |-> visible[r],
     committed_visible |-> committed_visible[r]]

\* _process_update on a replica whose state is st.
ProcessUpdateOn(st, msg) ==
    IF HasVersion(st.knowledge, msg.obj_ver.version)
    THEN OpState(TRUE, FALSE, NoRecord, st.knowledge, st.visible, st.committed_visible)
    ELSE InsertObject(st.db[msg.key], msg.obj_ver, st.knowledge, st.visible,
                      st.committed_visible)

\* An update handler that inserts the version without asking whether it is
\* known.
ProcessUpdateUnchecked(r, msg) ==
    InsertObject(db[r][msg.key], msg.obj_ver, knowledge[r], visible[r],
                 committed_visible[r])

ProcessUpdate(r, msg) == ProcessUpdateOn(ReplicaState(r), msg)

\* The replica state st after _process_update has left o on key.
Installed(st, key, o) ==
    [db |-> IF o.put THEN [st.db EXCEPT ![key] = o.versions] ELSE st.db,
     knowledge |-> o.knowledge, visible |-> o.visible,
     committed_visible |-> o.committed_visible]

\* deliver_message of an UpdateMessage, as a function of the replica state.
DeliverTo(st, msg) == Installed(st, msg.key, ProcessUpdateOn(st, msg))

\* The replica state after the messages of seq are delivered in its order.
RECURSIVE DeliverSeq(_, _)
DeliverSeq(st, seq) ==
    IF seq = <<>> THEN st
    ELSE DeliverSeq(DeliverTo(st, Head(seq)), Tail(seq))

DeliverUpdate(r, msg) ==
    /\ msg \in updates
    /\ msg.sender # r
    /\ Install(r, msg.key, ProcessUpdate(r, msg))
    /\ delivered' = [delivered EXCEPT ![r] = @ \cup {msg.obj_ver.version}]
    /\ UNCHANGED <<sync, updates, requests, responses, reply_log, in_order>>

\* ------------------------------------------------------ Replica.request_sync
SyncRequestMessage(sender, dest, cookie, requestor_knowledge) ==
    [sender |-> sender, dest |-> dest, cookie |-> cookie,
     requestor_knowledge |-> requestor_knowledge]

\* A request_sync that starts over whether a sync is pending or not.
RequestSyncRestart(r, sync_replica_id, cookie) ==
    [sync |-> [sync_in_progress |-> TRUE, sync_replica |-> sync_replica_id,
               sync_cookie |-> cookie, sync_replica_visible |-> None,
               sync_replica_knowledge |-> None],
     sent |-> {SyncRequestMessage(r, sync_replica_id, cookie, knowledge[r])}]

\* What request_sync does at r: the sync fields it leaves and the request
\* it sends.
RequestSyncOutcome(r, sync_replica_id, cookie) ==
    IF sync[r].sync_in_progress
    THEN [sync |-> sync[r], sent |-> {}]
    ELSE [sync |-> [sync_in_progress |-> TRUE, sync_replica |-> sync_replica_id,
                    sync_cookie |-> cookie, sync_replica_visible |-> None,
                    sync_replica_knowledge |-> None],
          sent |-> {SyncRequestMessage(r, sync_replica_id, cookie, knowledge[r])}]

\* request_sync at r ends with outcome out.
FinishRequestSync(r, out) ==
    /\ sync' = [sync EXCEPT ![r] = out.sync]
    /\ requests' = requests \cup out.sent
    /\ reply_log' = IF out.sent = {} THEN reply_log
                     ELSE [reply_log EXCEPT ![r] = NoReplies]
    /\ UNCHANGED <<db, knowledge, visible, committed_visible, updates, responses,
                   delivered, in_order>>

RequestSync(r, sync_replica_id, cookie) ==
    FinishRequestSync(r, RequestSyncOutcome(r, sync_replica_id, cookie))

\* ------------------------------------------------------ _process_sync_request
SyncResponseSetupMessage(cookie, server_knowledge, server_visible) ==
    [type |-> "SyncSetup", cookie |-> cookie, server_knowledge |-> server_knowledge,
     server_visible |-> server_visible]

SyncResponseDataMessage(cookie, key, obj_ver) ==
    [type |-> "SyncData", cookie |-> cookie, key |-> key, obj_ver |-> obj_ver]

SyncResponseCompleteMessage(cookie) == [type |-> "SyncComplete", cookie |-> cookie]

\* One SyncData message for each of the versions wanted, in their order.
SyncDataMessages(cookie, key, wanted) ==
    [i \in 1..Len(wanted) |-> SyncResponseDataMessage(cookie, key, wanted[i])]

\* An answer that sends every version of the key, known to the requestor or
\* not.
SyncDataOfKeyAll(r, cookie, key, requestor_knowledge) ==
    SyncDataMessages(cookie, key,
        DiscardTimestampForReplacementVV(db[r][key], committed_visible[r]))

\* The SyncData messages of one key, in the order of its record.
SyncDataOfKey(r, cookie, key, requestor_knowledge) ==
    LET Wanted(ov) == ~HasVersion(requestor_knowledge, ov.version)
    IN SyncDataMessages(cookie, key,
            SelectSeq(DiscardTimestampForReplacementVV(db[r][key], committed_visible[r]),
                      Wanted))

\* The SyncData messages of the keys KeySeq[i..], key after key.
RECURSIVE SyncDataFrom(_, _, _, _)
SyncDataFrom(r, cookie, i, requestor_knowledge) ==
    IF i > Len(KeySeq) THEN <<>>
    ELSE SyncDataOfKey(r, cookie, KeySeq[i], requestor_knowledge)
            \o SyncDataFrom(r, cookie, i + 1, requestor_knowledge)

\* The messages replica r sends for a request, in the order it sends them.
SyncResponse(r, req_msg) ==
    <<SyncResponseSetupMessage(req_msg.cookie, knowledge[r], committed_visible[r])>>
        \o SyncDataFrom(r, req_msg.cookie, 1, req_msg.requestor_knowledge)
        \o <<SyncResponseCompleteMessage(req_msg.cookie)>>

\* A store whose get hands out its own records: the timestamps the handler
\* discards are discarded in the store.
StoreSharedWithSyncRequest(r) ==
    [key \in Keys |-> DiscardTimestampForReplacementVV(db[r][key], committed_visible[r])]

\* The store of r after _process_sync_request: get hands out copies of the
\* records and the handler never calls put.
StoreAfterSyncRequest(r) == db[r]

DeliverSyncRequest(r, req_msg) ==
    /\ req_msg \in requests
    /\ req_msg.dest = r
    /\ responses' = responses \cup
            {[sender |-> r, dest |-> req_msg.sender, msgs |-> SyncResponse(r, req_msg),
              reads |-> [key \in Keys |-> ReadOutcome(r, key).tuple]]}
    /\ db' = [db EXCEPT ![r] = StoreAfterSyncRequest(r)]
    /\ UNCHANGED <<knowledge, visible, committed_visible, sync, updates,
                   requests, delivered, reply_log, in_order>>

\* ---------------------------------------------- the sync replies, requestor
\* What a handler of a sync reply does at replica r: how it returns, the
\* state it leaves on the key it worked on, and the sync fields it leaves.
SyncOutcome(result, st, syn) == [result |-> result, st |-> st, sync |-> syn]

Dropped(r) == SyncOutcome("ok", Unchanged(r, TRUE, visible[r]), sync[r])

\* A check of the sender and the cookie that forgets whether a sync is in
\* progress.
MatchesWhenIdle(r, sender_id, msg) ==
    ~(sender_id # sync[r].sync_replica \/ msg.cookie # sync[r].sync_cookie)

Matches(r, sender_id, msg) ==
    /\ sync[r].sync_in_progress
    /\ ~(sender_id # sync[r].sync_replica \/ msg.cookie # sync[r].sync_cookie)

\* _process_sync_response_setup
ProcessSyncResponseSetup(r, sender_id, msg) ==
    IF ~Matches(r, sender_id, msg) THEN Dropped(r)
    ELSE IF ~DominatesVV(msg.server_knowledge, msg.server_visible)
    THEN SyncOutcome("AssertionError", Unchanged(r, FALSE, visible[r]), sync[r])
    ELSE SyncOutcome("ok", Unchanged(r, TRUE, visible[r]),
                     [sync[r] EXCEPT !.sync_replica_knowledge = msg.server_knowledge,
                                     !.sync_replica_visible = msg.server_visible])

\* A SyncData handler that inserts the version as it was sent.
SyncObjectVersionAsSent(r, obj_ver) == obj_ver

\* _process_sync_response_data, after _insert_object has left st.
SyncInserted(r, st) == SyncOutcome(IF st.ok THEN "ok" ELSE "AssertionError", st, sync[r])

\* The version a SyncData message carries, its elided timestamp replaced.
SyncObjectVersion(r, obj_ver) ==
    IF obj_ver.timestamp = None
    THEN [obj_ver EXCEPT !.timestamp = sync[r].sync_replica_visible]
    ELSE obj_ver

\* _process_sync_response_data
ProcessSyncResponseData(r, sender_id, msg) ==
    IF ~Matches(r, sender_id, msg) THEN Dropped(r)
    ELSE IF HasVersion(knowledge[r], msg.obj_ver.version) THEN Dropped(r)
    ELSE IF sync[r].sync_replica_knowledge = None \/ sync[r].sync_replica_visible = None
    THEN SyncOutcome("AssertionError", Unchanged(r, FALSE, visible[r]), sync[r])
    ELSE SyncInserted(r,
            InsertObject(db[r][msg.key], SyncObjectVersion(r, msg.obj_ver),
                         knowledge[r], visible[r], committed_visible[r]))

\* A SyncComplete handler that raises visible and committed_visible and
\* leaves knowledge as it is.
SyncMergedVisibleOnly(r, visible1) ==
    OpState(TRUE, FALSE, NoRecord, knowledge[r], visible1,
            Update(committed_visible[r], visible1))

\* A SyncComplete handler that takes the peer's knowledge for its own.
SyncMergedReplaced(r, visible1) ==
    OpState(TRUE, FALSE, NoRecord, sync[r].sync_replica_knowledge, visible1,
            Update(committed_visible[r], visible1))

\* The state _process_sync_response_complete leaves: visible is already
\* raised by server_visible.
SyncMerged(r, visible1) ==
    OpState(TRUE, FALSE, NoRecord, Merge(knowledge[r], sync[r].sync_replica_knowledge),
            visible1, Update(committed_visible[r], visible1))

\* _process_sync_response_complete
ProcessSyncResponseComplete(r, sender_id, msg) ==
    IF ~Matches(r, sender_id, msg) THEN Dropped(r)
    ELSE IF sync[r].sync_replica_knowledge = None \/ sync[r].sync_replica_visible = None
    THEN SyncOutcome("AssertionError", Unchanged(r, FALSE, visible[r]), sync[r])
    ELSE SyncOutcome("ok",
                SyncMerged(r, Update(visible[r], sync[r].sync_replica_visible)),
                [sync[r] EXCEPT !.sync_in_progress = FALSE,
                                !.sync_replica_knowledge = None,
                                !.sync_replica_visible = None])

\* Replica.deliver_message on a sync reply
ProcessSyncReply(r, sender_id, msg) ==
    IF msg.type = "SyncSetup" THEN ProcessSyncResponseSetup(r, sender_id, msg)
    ELSE IF msg.type = "SyncData" THEN ProcessSyncResponseData(r, sender_id, msg)
    ELSE ProcessSyncResponseComplete(r, sender_id, msg)

KeyOf(msg) == IF msg.type = "SyncData" THEN msg.key ELSE KeySeq[1]

\* Whether reply i of resp is the one that comes next when the replies of
\* the sync in progress at r are taken in the order they were sent.
NextInOrder(r, resp, i) ==
    /\ i = reply_log[r].next
    /\ reply_log[r].batch \in {None, resp}

\* The handler of a sync reply at r ends with outcome out.
FinishSync(r, key, out) ==
    /\ Install(r, key, out.st)
    /\ sync' = [sync EXCEPT ![r] = out.sync]

DeliverSyncReply(r, resp, i) ==
    /\ resp \in responses
    /\ resp.dest = r
    /\ i \in 1..Len(resp.msgs)
    /\ FinishSync(r, KeyOf(resp.msgs[i]), ProcessSyncReply(r, resp.sender, resp.msgs[i]))
    /\ IF Matches(r, resp.sender, resp.msgs[i])
       THEN /\ in_order' = (in_order /\ NextInOrder(r, resp, i))
            /\ reply_log' = [reply_log EXCEPT ![r] =
                    IF NextInOrder(r, resp, i)
                    THEN [batch |-> resp, next |-> i + 1]
                    ELSE @]
       ELSE UNCHANGED <<reply_log, in_order>>
    /\ UNCHANGED <<updates, requests, responses, delivered>>

\* -------------------------------------------------------------- the system
\* The steps of the replicas and of the bus, without the bounds of a run.
ClientWrite ==
    \/ \E r \in Replicas, key \in Keys, value \in Values : Create(r, key, value)
    \/ \E r \in Replicas, key \in Keys, value \in Values :
          \E dep \in DepInputs(r, key) : UpdateOp(r, key, value, dep)
    \/ \E r \in Replicas, key \in Keys :
          \E dep \in DepInputs(r, key) : Delete(r, key, dep)

ClientRead == \E r \in Replicas, key \in Keys : Read(r, key)

BusUpdate == \E r \in Replicas, msg \in updates : DeliverUpdate(r, msg)

ClientSync ==
    \E r \in Replicas, cookie \in Cookies :
        \E peer \in Replicas \ {r} : RequestSync(r, peer, cookie)

BusSyncRequest == \E r \in Replicas, req_msg \in requests : DeliverSyncRequest(r, req_msg)

BusSyncReply ==
    \E r \in Replicas, resp \in responses :
        \E i \in 1..Len(resp.msgs) : DeliverSyncReply(r, resp, i)

\* Every operation of every replica, syncs included.
Next ==
    \/ ClientRead
    \/ TotalWrites < MaxWrites /\ ClientWrite
    \/ BusUpdate
    \/ Cardinality(requests) < MaxSyncs /\ ClientSync
    \/ Cardinality(responses) < MaxSyncs /\ BusSyncRequest
    \/ BusSyncReply

Spec == Init /\ [][Next]_vars

\* Writes, reads and the delivery of broadcast updates: no sync is requested.
NextUpdates ==
    \/ ClientRead
    \/ TotalWrites < MaxUpdateWrites /\ ClientWrite
    \/ BusUpdate

SpecUpdates == Init /\ [][NextUpdates]_vars

\* Syncs during which no write is made: the replicas write until one of them
\* asks for a sync, and from then on only read and take messages.
NextSync ==
    \/ ClientRead
    \/ requests = {} /\ TotalWrites < MaxSyncWrites /\ ClientWrite
    \/ BusUpdate
    \/ Cardinality(requests) < MaxSyncs /\ ClientSync
    \/ Cardinality(responses) < MaxSyncs /\ BusSyncRequest
    \/ BusSyncReply

SpecSync == Init /\ [][NextSync]_vars

\* Every UpdateMessage broadcast so far has been delivered to every replica
\* but its sender.
AllDelivered ==
    \A m \in updates : \A r \in Replicas \ {m.sender} :
        m.obj_ver.version \in delivered[r]

\* Every UpdateMessage broadcast so far has been delivered to every replica
\* but its sender and one replica that has taken none.
AllDeliveredButOne ==
    \E late \in Replicas :
        /\ delivered[late] = {}
        /\ \A m \in updates : \A r \in Replicas \ {m.sender, late} :
              m.obj_ver.version \in delivered[r]

\* Sync requests answered after the writes: the replicas write and take the
\* updates, one of them at most taking none, then a replica asks a peer for a
\* sync and the peer answers; the replies and the updates not yet taken stay
\* on the bus.
NextRequests ==
    \/ ClientRead
    \/ requests = {} /\ TotalWrites < MaxRequestWrites /\ ClientWrite
    \/ requests = {} /\ BusUpdate
    \/ /\ TotalWrites = MaxRequestWrites
       /\ AllDeliveredButOne
       /\ Cardinality(requests) < MaxSyncs
       /\ ClientSync
    \/ Cardinality(responses) < MaxSyncs /\ BusSyncRequest

SpecRequests == Init /\ [][NextRequests]_vars

\* ------------------------------------------------- VersionSet on its own
\* The replicas whose knowledge stands for a VersionSet of its own, the
\* replica ids of the versions handed to it, and those versions.
SetHolders == {"AA", "BB"}
SetIds == {"AA", "BB"}
VersionInputs == {Version(id, c) : id \in SetIds, c \in 1..MaxCounter}

\* The versions a call hands to a set: delivered[h] collects them.
VersionsUpTo(ver) == {Version(ver.replica_id, c) : c \in 1..ver.counter}

\* VersionSet.insert_version on the set of h
InsertVersionInto(h, ver) ==
    /\ knowledge' = [knowledge EXCEPT ![h] = InsertVersion(@, ver)]
    /\ delivered' = [delivered EXCEPT ![h] = @ \cup {ver}]
    /\ UNCHANGED <<db, visible, committed_visible, sync, updates, requests, responses,
                   reply_log, in_order>>

\* VersionSet.merge of the set of other into the set of h
MergeInto(h, other) ==
    /\ knowledge' = [knowledge EXCEPT ![h] = Merge(@, knowledge[other])]
    /\ delivered' = [delivered EXCEPT ![h] = @ \cup delivered[other]]
    /\ UNCHANGED <<db, visible, committed_visible, sync, updates, requests, responses,
                   reply_log, in_order>>

\* VersionSet.merge_one_version on the set of h
MergeOneVersionInto(h, ver) ==
    /\ knowledge' = [knowledge EXCEPT ![h] = MergeOneVersion(@, ver)]
    /\ delivered' = [delivered EXCEPT ![h] = @ \cup VersionsUpTo(ver)]
    /\ UNCHANGED <<db, visible, committed_visible, sync, updates, requests, responses,
                   reply_log, in_order>>

\* Any sequence of insert_version, merge and merge_one_version calls on two
\* sets.
NextVersionSet ==
    \/ \E h \in SetHolders, ver \in VersionInputs : InsertVersionInto(h, ver)
    \/ \E h \in SetHolders : \E other \in SetHolders \ {h} : MergeInto(h, other)
    \/ \E h \in SetHolders, ver \in VersionInputs : MergeOneVersionInto(h, ver)

SpecVersionSet == Init /\ [][NextVersionSet]_vars

\* ------------------------------------- the replica that elides no timestamp
\* The timestamp a version was written with: the one of its UpdateMessage
\* (_local_update broadcasts a copy taken before _insert_object).
OriginalTimestamp(ver) ==
    (CHOOSE m \in updates : m.obj_ver.version = ver).obj_ver.timestamp

\* A record as the reference replica stores it: every version with the
\* timestamp it was written with.
Original(versions) ==
    [i \in 1..Len(versions) |->
        [versions[i] EXCEPT !.timestamp = OriginalTimestamp(versions[i].version)]]

\* _insert_object of the reference replica from its last loop on: nothing
\* is discarded before the put.
ReferenceInsertFiltered(appended, kn, cv, fv) ==
    IF ~fv.ok \/ Len(RetainVersions(appended, fv.vv, fv.visible)) = 0
    THEN OpState(FALSE, FALSE, appended, kn, fv.visible, cv)
    ELSE OpState(TRUE, TRUE, RetainVersions(appended, fv.vv, fv.visible), kn,
                 fv.visible, CommitVisible(cv, fv.visible))

\* _insert_object of the reference replica once obj_ver is appended and its
\* version is in kn: no timestamp is missing, none is restored.
ReferenceInsertAppended(appended, obj_ver, kn, vis, cv) ==
    ReferenceInsertFiltered(appended, kn, cv,
        FilterVisibleVersions(appended, kn,
            IF DominatesVV(kn, obj_ver.timestamp)
            THEN Update(vis, obj_ver.timestamp)
            ELSE vis,
            cv))

ReferenceInsertObject(versions, obj_ver, kn, vis, cv) ==
    IF HasVersion(kn, obj_ver.version)
    THEN OpState(FALSE, FALSE, versions, kn, vis, cv)
    ELSE ReferenceInsertAppended(Append(versions, obj_ver), obj_ver,
            InsertVersion(kn, obj_ver.version), vis, cv)

\* ================================================================== claims

\* C1: at the entry and exit of every call, at every replica, the greatest
\* contiguous prefix of knowledge dominates visible, visible dominates
\* committed_visible, and the three hold the same counter for the replica's
\* own id.
CrossFieldInvariant ==
    \A r \in Replicas :
        /\ Dominates(GetGcp(knowledge[r]), visible[r])
        /\ Dominates(visible[r], committed_visible[r])
        /\ knowledge[r][r].prefix_max = Get(visible[r], r)
        /\ Get(visible[r], r) = Get(committed_visible[r], r)

\* A replica that wrote, and one whose visible a read has latched past its
\* committed_visible.
CrossFieldWitness ==
    /\ \E r \in Replicas : knowledge[r][r].prefix_max > 0
    /\ \E r \in Replicas : visible[r] # committed_visible[r]

\* C2: causal closure. When visible at r dominates a version E, or a read at
\* r returns E, then visible at r (after the read) dominates the timestamp the
\* writer of E gave it, and all the versions that timestamp names are in the
\* contiguous prefix of the knowledge of r.
CausalClosure ==
    \A r \in Replicas : \A m \in updates :
        /\ DominatesVersion(visible[r], m.obj_ver.version) =>
              /\ Dominates(visible[r], m.obj_ver.timestamp)
              /\ Dominates(GetGcp(knowledge[r]), m.obj_ver.timestamp)
        /\ LET out == ReadOutcome(r, m.key)
           IN (Get(out.tuple.dependent_versions, m.obj_ver.version.replica_id)
                    = m.obj_ver.version.counter) =>
                 /\ Dominates(out.visible, m.obj_ver.timestamp)
                 /\ Dominates(GetGcp(knowledge[r]), m.obj_ver.timestamp)

\* A read at r returns a version written elsewhere whose timestamp names a
\* version of a third replica.
CausalClosureWitness ==
    \E r \in Replicas : \E m \in updates :
        /\ m.sender # r
        /\ Get(ReadOutcome(r, m.key).tuple.dependent_versions, m.sender)
                = m.obj_ver.version.counter
        /\ \E id \in Replicas \ {r, m.sender} : Get(m.obj_ver.timestamp, id) > 0

\* The values of a read as a multiset: how often each value is in the list.
ValueBag(values) ==
    [v \in Values \cup {NoneValue} |->
        Cardinality({i \in 1..Len(values) : values[i] = v})]

\* C3: read convergence. Once every UpdateMessage broadcast by the writes made
\* so far has been delivered to every other replica, in whatever order and
\* however often, read(key) returns the same dependent_versions and the same
\* multiset of values on every replica, for every key.
ReadConvergence ==
    AllDelivered =>
        \A key \in Keys : \A r1, r2 \in Replicas :
            LET t1 == ReadOutcome(r1, key).tuple
                t2 == ReadOutcome(r2, key).tuple
            IN /\ t1.dependent_versions = t2.dependent_versions
               /\ ValueBag(t1.values) = ValueBag(t2.values)

\* Everything is delivered, three writes were made by at least two replicas,
\* and some key reads with two sibling values.
ReadConvergenceWitness ==
    /\ AllDelivered
    /\ Cardinality(updates) = MaxUpdateWrites
    /\ \E key \in Keys : Len(ReadOutcome("CC", key).tuple.values) = 2

\* The version of UpdateMessage m is in the record of its key at r.
Stored(r, m) ==
    \E i \in 1..Len(db[r][m.key]) : db[r][m.key][i].version = m.obj_ver.version

\* Every version the timestamp of m names, m's own included, was written by
\* r or has been delivered to r.
PrerequisitesDelivered(r, m) ==
    \A m2 \in updates :
        (m2.sender # r /\ DominatesVersion(m.obj_ver.timestamp, m2.obj_ver.version))
            => m2.obj_ver.version \in delivered[r]

\* A version of the same key whose writer had seen m is visible at r.
Superseded(r, m, vis) ==
    \E m2 \in updates :
        /\ m2.key = m.key
        /\ m2 # m
        /\ DominatesVersion(m2.obj_ver.timestamp, m.obj_ver.version)
        /\ DominatesVersion(vis, m2.obj_ver.version)

Concurrent(m1, m2) ==
    /\ m1.key = m2.key
    /\ m1 # m2
    /\ ~DominatesVersion(m1.obj_ver.timestamp, m2.obj_ver.version)
    /\ ~DominatesVersion(m2.obj_ver.timestamp, m1.obj_ver.version)

\* Replica r wrote the version of m or was given its UpdateMessage.
Inserted(r, m) == m.sender = r \/ m.obj_ver.version \in delivered[r]

\* A read of the key of m at r returns the version of m.
Returned(r, m) ==
    Get(ReadOutcome(r, m.key).tuple.dependent_versions, m.sender)
        = m.obj_ver.version.counter

\* Both siblings are visible at r once it reads their key, and no version
\* that replaces either is.
BothVisible(r, m1, m2) ==
    LET vis == ReadOutcome(r, m1.key).visible
    IN /\ Concurrent(m1, m2)
       /\ Inserted(r, m1) /\ Inserted(r, m2)
       /\ DominatesVersion(vis, m1.obj_ver.version)
       /\ DominatesVersion(vis, m2.obj_ver.version)
       /\ ~Superseded(r, m1, vis) /\ ~Superseded(r, m2, vis)

\* A version r inserted stays in the record of its key for as long as no
\* version whose timestamp dominates it is visible at r.
KeptUntilReplaced ==
    \A r \in Replicas : \A m \in updates :
        (Inserted(r, m) /\ ~Superseded(r, m, visible[r])) => Stored(r, m)

\* Some version of key with a value (not a tombstone) is visible at r once
\* it reads the key, and not replaced.
LiveValue(r, key) ==
    \E m \in updates :
        /\ m.key = key
        /\ m.obj_ver.value # NoneValue
        /\ Inserted(r, m)
        /\ DominatesVersion(ReadOutcome(r, key).visible, m.obj_ver.version)
        /\ ~Superseded(r, m, ReadOutcome(r, key).visible)

\* C5: sibling preservation. Where two concurrently written versions of a key
\* are both visible and not replaced, both are in the record, and a read
\* returns both provided some surviving version of the key is not a tombstone
\* (when all are tombstones the read returns the empty tuple); no inserted
\* version leaves the record before a version whose timestamp dominates it is
\* visible.
SiblingPreservation ==
    /\ KeptUntilReplaced
    /\ \A r \in Replicas : \A m1, m2 \in updates :
          BothVisible(r, m1, m2) =>
              /\ Stored(r, m1) /\ Stored(r, m2)
              /\ LiveValue(r, m1.key) => (Returned(r, m1) /\ Returned(r, m2))

\* A replica that wrote neither sibling holds both and reads both values.
SiblingPreservationWitness ==
    \E m1, m2 \in updates :
        LET r == CHOOSE x \in Replicas : x \notin {m1.sender, m2.sender}
        IN /\ m1.sender # m2.sender
           /\ BothVisible(r, m1, m2)
           /\ Len(ReadOutcome(r, m1.key).tuple.values) = 2
           /\ Returned(r, m1) /\ Returned(r, m2)

\* C5 as stated: wherever both concurrent versions are visible, a read
\* returns both.
SiblingsAlwaysRead ==
    \A r \in Replicas : \A m1, m2 \in updates :
        BothVisible(r, m1, m2) => (Returned(r, m1) /\ Returned(r, m2))

\* The write of m resolved a conflict: its writer had read two concurrent
\* versions of the key, and gave the write a value.
Resolves(m) ==
    /\ m.obj_ver.value # NoneValue
    /\ \E m1, m2 \in updates \ {m} :
          /\ Concurrent(m1, m2)
          /\ m1.key = m.key
          /\ DominatesVersion(m.obj_ver.timestamp, m1.obj_ver.version)
          /\ DominatesVersion(m.obj_ver.timestamp, m2.obj_ver.version)

\* Every other version written to the key of m is one the writer of m had seen.
LatestOfKey(m) ==
    \A m2 \in updates \ {m} :
        m2.key = m.key => DominatesVersion(m.obj_ver.timestamp, m2.obj_ver.version)

\* A read of the key of m at r returns the value of m and nothing else.
ReadsOnly(r, m) ==
    ReadOutcome(r, m.key).tuple =
        ReadTuple(UpdateVersion(EmptyVV, m.obj_ver.version), <<m.obj_ver.value>>)

\* C6: conflict resolution. When a replica has read several siblings of a key
\* and updated the key with the dependent_versions returned, and no other
\* write to the key is concurrent with that update, then every replica that
\* has the update and every version its timestamp names reads exactly the
\* one new value: none of the siblings it replaced is returned.
ConflictResolution ==
    \A m \in updates : \A r \in Replicas :
        (/\ Resolves(m)
         /\ LatestOfKey(m)
         /\ Inserted(r, m)
         /\ PrerequisitesDelivered(r, m)) => ReadsOnly(r, m)

\* A resolving update has reached every replica, with all it depends on, and
\* a replica that wrote none of the versions reads the new value alone.
ConflictResolutionWitness ==
    \E m \in updates :
        /\ Resolves(m)
        /\ LatestOfKey(m)
        /\ \A r \in Replicas : Inserted(r, m) /\ PrerequisitesDelivered(r, m)
        /\ \E r \in Replicas :
              /\ \A m2 \in updates : m2.sender # r
              /\ ReadsOnly(r, m)

\* C6 as stated: once the resolving update is delivered everywhere, every
\* replica reads exactly the new value.
ResolutionOnceDelivered ==
    \A m \in updates :
        (Resolves(m) /\ LatestOfKey(m) /\ \A r \in Replicas : Inserted(r, m))
            => \A r \in Replicas : ReadsOnly(r, m)

\* Every version of the VersionSet part is in the VersionSet whole.
Contains(whole, part) == Merge(whole, part) = whole

\* The peer's knowledge as sent in the SyncSetup of resp.
ServerKnowledge(resp) == resp.msgs[1].server_knowledge

\* Two ReadTuples with the same dependent versions and sibling values.
SameRead(t1, t2) ==
    /\ t1.dependent_versions = t2.dependent_versions
    /\ ValueBag(t1.values) = ValueBag(t2.values)

\* Replica r reads every key the peer read values for when it answered with
\* resp, with the same siblings.
ReadsAsPeer(r, resp) ==
    \A key \in Keys :
        resp.reads[key].values # <<>> =>
            SameRead(ReadOutcome(r, key).tuple, resp.reads[key])

\* The sync of r is complete, and r took every reply of it in the order the
\* peer sent them.
CompletedInOrder(r) ==
    /\ in_order
    /\ ~sync[r].sync_in_progress
    /\ reply_log[r].batch # None
    /\ reply_log[r].next = Len(reply_log[r].batch.msgs) + 1

Completed(r, resp) ==
    /\ ~sync[r].sync_in_progress
    /\ resp.dest = r
    /\ resp.sender = sync[r].sync_replica
    /\ resp.msgs[1].cookie = sync[r].sync_cookie

SyncDataOf(resp) == {resp.msgs[i] : i \in 2..(Len(resp.msgs) - 1)}

\* The timestamp r inserts the version of SyncData message d with: its own,
\* or server_visible of the SyncSetup when the peer had elided it.
SyncTimestamp(resp, d) ==
    IF d.obj_ver.timestamp = None THEN resp.msgs[1].server_visible
    ELSE d.obj_ver.timestamp

\* The UpdateMessage that was broadcast for a version.
UpdateOf(version) == CHOOSE m \in updates : m.obj_ver.version = version

\* The version of SyncData message d is in the record of its key at r, and
\* r neither wrote it nor was given its UpdateMessage: it came by SyncData.
ViaSyncData(r, d) ==
    /\ d.obj_ver.version.replica_id # r
    /\ d.obj_ver.version \notin delivered[r]
    /\ \E i \in 1..Len(db[r][d.key]) : db[r][d.key][i].version = d.obj_ver.version

\* A read of the key of m at r returns m, or a visible version replaces it
\* (a tombstone is returned when the read returns anything).
Revealed(r, m) ==
    \/ Superseded(r, m, ReadOutcome(r, m.key).visible)
    \/ /\ Get(VisibleDeps(r, m.key), m.sender) = m.obj_ver.version.counter
       /\ m.obj_ver.value # NoneValue => Returned(r, m)

\* What SyncComplete leaves at r for the SyncSetup of resp: server_knowledge
\* is merged into knowledge, visible is raised by server_visible, and
\* committed_visible by the raised visible.
MergedFromPeer(r, resp) ==
    /\ Contains(knowledge[r], ServerKnowledge(resp))
    /\ Dominates(visible[r], resp.msgs[1].server_visible)
    /\ Dominates(committed_visible[r], resp.msgs[1].server_visible)

\* A version that came by SyncData and whose timestamp names versions missing
\* from the contiguous knowledge of r is not returned by a read.
SyncDataQuarantined(r, resp) ==
    \A d \in SyncDataOf(resp) :
        (ViaSyncData(r, d) /\ ~Dominates(GetGcp(knowledge[r]), SyncTimestamp(resp, d)))
            => ~Returned(r, UpdateOf(d.obj_ver.version))

UpdateIdempotent ==
    \A r \in Replicas : \A m \in updates :
        m.obj_ver.version \in delivered[r] =>
            /\ ProcessUpdate(r, m) = Unchanged(r, TRUE, visible[r])
            /\ DeliverTo(ReplicaState(r), m) = ReplicaState(r)

\* A message was delivered to r and a later version has since replaced its
\* version in the record: r no longer stores what it would be given again.
UpdateIdempotentWitness ==
    \E r \in Replicas : \E m \in updates :
        /\ m.obj_ver.version \in delivered[r]
        /\ ~Stored(r, m)
        /\ db[r][m.key] # NoRecord

\* The orders in which the messages of the set S can be delivered.
RECURSIVE Orders(_)
Orders(S) ==
    IF S = {} THEN {<<>>}
    ELSE UNION {{<<m>> \o t : t \in Orders(S \ {m})} : m \in S}

\* The set S of UpdateMessages is closed under causal dependencies for r:
\* every version a timestamp of S names is in S or known to r already.
CausallyClosed(r, S) ==
    \A m \in S : \A m2 \in updates :
        DominatesVersion(m.obj_ver.timestamp, m2.obj_ver.version) =>
            m2 \in S \/ HasVersion(knowledge[r], m2.obj_ver.version)

\* The messages r has not taken yet: a known one is dropped wherever it
\* stands in an order.
Undelivered(r) ==
    {m \in updates : m.sender # r /\ ~HasVersion(knowledge[r], m.obj_ver.version)}

\* The sets of messages r has not taken yet that are closed for r.
ClosedSets(r) == {S \in SUBSET Undelivered(r) : CausallyClosed(r, S)}

\* What a read of key returns on a replica whose state is st.
ReadOn(st, key) ==
    IF st.db[key] = NoRecord THEN ReadTuple(EmptyVV, <<>>)
    ELSE ReadFiltered(FilterVisibleVersions(st.db[key], st.knowledge, st.visible,
                                            st.committed_visible)).tuple

\* Two replica states with the same knowledge and the same reads of all keys.
SameKnowledgeAndReads(st1, st2) ==
    /\ st1.knowledge = st2.knowledge
    /\ \A key \in Keys : SameRead(ReadOn(st1, key), ReadOn(st2, key))

\* Every order of delivering S to a replica in state st ends like the state
\* end, which one of the orders produced.
OrdersAgree(st, S, end) ==
    \A o \in Orders(S) : SameKnowledgeAndReads(DeliverSeq(st, o), end)

\* C10: commutativity of Update delivery. For a set of UpdateMessages closed
\* under causal dependencies, delivered to a replica from the same state,
\* every delivery order ends in the identical knowledge and in the same read
\* of every key; visible, committed_visible and the timestamps elided in the
\* store may differ until the keys are read.
UpdatesCommute ==
    \A r \in Replicas : \A S \in ClosedSets(r) :
        OrdersAgree(ReplicaState(r), S,
                    DeliverSeq(ReplicaState(r), CHOOSE o \in Orders(S) : TRUE))

\* Three messages, none of them delivered to r yet, form a closed set, and
\* two of their orders leave r with different visible vectors.
UpdatesCommuteWitness ==
    \E r \in Replicas : \E S \in ClosedSets(r) :
        /\ Cardinality(S) = 3
        /\ delivered[r] = {}
        /\ \E o1, o2 \in Orders(S) :
              DeliverSeq(ReplicaState(r), o1).visible #
                  DeliverSeq(ReplicaState(r), o2).visible

\* The versions a record holds, each with its timestamp as stored.
Entries(versions) == {versions[i] : i \in DOMAIN versions}

\* Two replica states with identical version structures and with records
\* that hold the same versions, stored with the same timestamps, whatever
\* the order of the siblings in a record.
SameContents(st1, st2) ==
    /\ st1.knowledge = st2.knowledge
    /\ st1.visible = st2.visible
    /\ st1.committed_visible = st2.committed_visible
    /\ \A key \in Keys : Entries(st1.db[key]) = Entries(st2.db[key])

\* C10 as stated: every delivery order ends in the identical knowledge,
\* visible, committed_visible and store.
UpdatesCommuteExactly ==
    \A r \in Replicas : \A S \in ClosedSets(r) : \A o1, o2 \in Orders(S) :
        SameContents(DeliverSeq(ReplicaState(r), o1),
                     DeliverSeq(ReplicaState(r), o2))

\* The sync replies that can be delivered to r: a reply of a response sent
\* to r, with the replica that sent it.
RepliesFor(r) ==
    UNION {{[sender |-> resp.sender, msg |-> resp.msgs[i]] : i \in 1..Len(resp.msgs)} :
            resp \in {x \in responses : x.dest = r}}

\* C11 as stated: deliver_message never fails. In every replica state the
\* handler of every message that can be delivered returns normally, a
\* SyncData or SyncComplete that comes before the SyncSetup included, and a
\* sync reply that is out of context is dropped and changes nothing.
DeliverNeverFails ==
    \A r \in Replicas :
        /\ \A m \in updates : m.sender # r => ProcessUpdate(r, m).ok
        /\ \A d \in RepliesFor(r) :
              /\ ProcessSyncReply(r, d.sender, d.msg).result = "ok"
              /\ ~Matches(r, d.sender, d.msg) =>
                    ProcessSyncReply(r, d.sender, d.msg) = Dropped(r)

\* The version vectors that vv dominates, written without zero entries.
DominatedBy(vv) ==
    UNION {{f \in [D -> 1..TotalWrites + 1] : \A id \in D : f[id] <= vv[id]} :
            D \in SUBSET DOMAIN vv}

\* The dependent versions a client can hold for a call at r: a vector of
\* versions r knows, and such a vector with a version of r from the future.
DepCandidates(r) ==
    DominatedBy(UpdateVersion(GetGcp(knowledge[r]),
                              Version(r, knowledge[r][r].prefix_max + 1)))

\* visible at r as the visibility engine leaves it on the record of key.
VisibleOnceFiltered(r, key) ==
    FilterVisibleVersions(db[r][key], knowledge[r], visible[r],
                          committed_visible[r]).visible

\* The call ended with the exception result: nothing is stored or sent.
Failed(out, result) == out.result = result /\ ~out.st.put /\ out.sent = {}

\* C12: ConcurrentUpdate detection. update(key, value, dep) at a replica
\* whose visible, once the visibility engine has run on the record, dominates
\* dep, and where dep differs from the versions of the surviving visible
\* siblings of the key, fails with ConcurrentUpdate; so does an update with
\* the dependent versions of a read made before another write to the key
\* that is now visible at the replica.
ConcurrentUpdateDetected ==
    \A r \in Replicas, key \in Keys :
        db[r][key] # NoRecord =>
            \A dep \in DepCandidates(r), value \in Values :
                (Dominates(VisibleOnceFiltered(r, key), dep) /\ dep # VisibleDeps(r, key))
                    => Failed(UpdateOutcome(r, key, value, dep), "ConcurrentUpdate")

\* The version of m was read at r as the only sibling of its key.
ReadAlone(m) == UpdateVersion(EmptyVV, m.obj_ver.version)

\* A version of a key was read, another write to the key that had seen it
\* is visible at r, and the update with the versions of the old read fails
\* with ConcurrentUpdate.
ConcurrentUpdateDetectedWitness ==
    \E r \in Replicas : \E m \in updates : \E value \in Values :
        /\ Inserted(r, m)
        /\ Superseded(r, m, visible[r])
        /\ Dominates(visible[r], ReadAlone(m))
        /\ ReadAlone(m) # VisibleDeps(r, m.key)
        /\ UpdateOutcome(r, m.key, value, ReadAlone(m)).result = "ConcurrentUpdate"

\* update and delete at r on key with dep both fail with ValueError.
BothValueError(r, key, dep) ==
    /\ \A value \in Values : Failed(UpdateOutcome(r, key, value, dep), "ValueError")
    /\ Failed(DeleteOutcome(r, key, dep), "ValueError")

\* C13: update or delete on an existing key with a dep that visible, as the
\* visibility engine leaves it on the record of the key at the start of the
\* call, does not dominate fails with ValueError, although such a dep also
\* differs from the versions of the visible siblings: the check comes before
\* the one for ConcurrentUpdate.
FutureVersionsRejected ==
    \A r \in Replicas, key \in Keys :
        db[r][key] # NoRecord =>
            \A dep \in DepCandidates(r) :
                ~Dominates(VisibleOnceFiltered(r, key), dep) =>
                    dep # VisibleDeps(r, key) /\ BothValueError(r, key, dep)

\* A key with visible siblings is updated with a dep from the future.
FutureVersionsRejectedWitness ==
    \E r \in Replicas, key \in Keys : \E dep \in DepCandidates(r) :
        /\ db[r][key] # NoRecord
        /\ VisibleDeps(r, key) # EmptyVV
        /\ ~Dominates(VisibleOnceFiltered(r, key), dep)
        /\ BothValueError(r, key, dep)

\* C13 as stated: a dep that the visible of the replica does not dominate
\* when the call is made fails with ValueError.
FutureOfVisibleRejected ==
    \A r \in Replicas, key \in Keys :
        db[r][key] # NoRecord =>
            \A dep \in DepCandidates(r) :
                ~Dominates(visible[r], dep) => BothValueError(r, key, dep)

\* The call succeeded: it returns the next version of r and broadcasts one
\* UpdateMessage, which carries that version.
Succeeded(r, key, out) ==
    /\ out.result = "ok"
    /\ out.ver = Version(r, knowledge[r][r].prefix_max + 1)
    /\ out.st.put
    /\ \E m \in out.sent :
          out.sent = {m} /\ m.sender = r /\ m.key = key /\ m.obj_ver.version = out.ver

\* C14: create(key, value) fails with DuplicateKey exactly when the record of
\* the key at the replica has a visible surviving version that is not a
\* tombstone; with no record, with tombstones only or with versions that are
\* not visible yet, create succeeds and returns the new version.
CreateDuplicateKey ==
    \A r \in Replicas, key \in Keys, value \in Values :
        /\ LiveValue(r, key) <=> Failed(CreateOutcome(r, key, value), "DuplicateKey")
        /\ ~LiveValue(r, key) => Succeeded(r, key, CreateOutcome(r, key, value))

\* A create succeeds on a key whose visible versions are all tombstones, and
\* another fails on a key with a value.
CreateDuplicateKeyWitness ==
    \E r \in Replicas, k1, k2 \in Keys, value \in Values :
        /\ VisibleDeps(r, k1) # EmptyVV
        /\ ~LiveValue(r, k1)
        /\ Succeeded(r, k1, CreateOutcome(r, k1, value))
        /\ Failed(CreateOutcome(r, k2, value), "DuplicateKey")

\* The call returned as result and left the replica and the bus as they were.
NothingDone(r, out, result) ==
    /\ out.result = result
    /\ ~out.st.put
    /\ out.st.knowledge = knowledge[r]
    /\ out.st.visible = visible[r]
    /\ out.st.committed_visible = committed_visible[r]
    /\ out.sent = {}

\* C15: on a key with no record at the replica, update fails with NoSuchKey
\* and delete returns normally; either way knowledge, visible,
\* committed_visible and the store stay as they are and no message is sent.
NoRecordNoEffect ==
    \A r \in Replicas, key \in Keys :
        db[r][key] = NoRecord =>
            \A dep \in DepCandidates(r) :
                /\ \A value \in Values :
                      NothingDone(r, UpdateOutcome(r, key, value, dep), "NoSuchKey")
                /\ NothingDone(r, DeleteOutcome(r, key, dep), "ok")

\* A replica that holds another key has no record of a key that a peer
\* has written, and its update of that key fails with NoSuchKey.
NoRecordNoEffectWitness ==
    \E r, peer \in Replicas, key, other \in Keys, value \in Values :
        /\ db[r][key] = NoRecord
        /\ db[r][other] # NoRecord
        /\ db[peer][key] # NoRecord
        /\ NothingDone(r, UpdateOutcome(r, key, value, EmptyVV), "NoSuchKey")
        /\ NothingDone(r, DeleteOutcome(r, key, EmptyVV), "ok")

\* The read of key at r returns no value and no dependent version.
ReadsNothing(r, key) == ReadOutcome(r, key).tuple = ReadTuple(EmptyVV, <<>>)

\* Message m is a delete whose writer had seen every other version written
\* to the key.
DeletesAll(m) == m.obj_ver.value = NoneValue /\ LatestOfKey(m)

\* C16: tombstone hiding. read returns no values and no dependent versions
\* whenever every surviving visible version of the key is a tombstone; and
\* at every replica that has a delete, made with the versions of a preceding
\* read, and every version the timestamp of the delete names, a read of the
\* key returns nothing, provided no other write to the key was made that the
\* deleting replica had not seen.
TombstoneHiding ==
    /\ \A r \in Replicas, key \in Keys : ~LiveValue(r, key) => ReadsNothing(r, key)
    /\ \A m \in updates : \A r \in Replicas :
          (DeletesAll(m) /\ Inserted(r, m) /\ PrerequisitesDelivered(r, m))
              => ReadsNothing(r, m.key)

\* A delete of a key that had a value has reached every replica with all it
\* depends on; a replica that wrote nothing stores the tombstone and reads
\* nothing.
TombstoneHidingWitness ==
    \E m \in updates :
        /\ DeletesAll(m)
        /\ \E m2 \in updates : m2.key = m.key /\ m2.obj_ver.value # NoneValue
        /\ \A r \in Replicas : Inserted(r, m) /\ PrerequisitesDelivered(r, m)
        /\ \E r \in Replicas :
              /\ \A m2 \in updates : m2.sender # r
              /\ Stored(r, m)
              /\ ReadsNothing(r, m.key)

\* C16 as stated: once the delete is delivered everywhere, a read of the key
\* returns no values on every replica.
DeletedOnceDelivered ==
    \A m \in updates :
        (DeletesAll(m) /\ \A r \in Replicas : Inserted(r, m))
            => \A r \in Replicas : ReadOutcome(r, m.key).tuple.values = <<>>

\* The visible versions of key at r are tombstones, all of them.
OnlyTombstones(r, key) == VisibleDeps(r, key) # EmptyVV /\ ~LiveValue(r, key)

\* The write of m gave a value to a key its writer had seen deleted.
CreatedAfterDelete(m) ==
    /\ m.obj_ver.value # NoneValue
    /\ \E t \in updates :
          /\ t.key = m.key
          /\ t.obj_ver.value = NoneValue
          /\ DominatesVersion(m.obj_ver.timestamp, t.obj_ver.version)

DeleteResult(result, concurrent) ==
    /\ result \in {"ok", "ValueError", "ConcurrentUpdate"}
    /\ result = "ConcurrentUpdate" <=> concurrent

\* The deletes of key at r, where the visibility engine leaves visible as
\* vis and finds the visible siblings vv.
DeleteOutcomesAt(r, key, vis, vv) ==
    \A dep \in DepCandidates(r) :
        DeleteResult(DeleteOutcome(r, key, dep).result,
                     db[r][key] # NoRecord /\ Dominates(vis, dep) /\ dep # vv)

\* C18: delete(key, dep) has three outcomes in every replica state: it
\* returns normally, it fails with ValueError, or it fails with
\* ConcurrentUpdate, the last exactly when the key has a record, visible
\* dominates dep once the record is filtered, and dep differs from the
\* versions of the visible siblings. It fails with no other error.
DeleteOutcomes ==
    \A r \in Replicas, key \in Keys :
        DeleteOutcomesAt(r, key, VisibleOnceFiltered(r, key), VisibleDeps(r, key))

\* At one replica a delete of a key returns normally with one dep, fails
\* with ValueError with another and with ConcurrentUpdate with a third.
DeleteOutcomesWitness ==
    \E r \in Replicas, key \in Keys : \E dep1, dep2, dep3 \in DepCandidates(r) :
        /\ Succeeded(r, key, DeleteOutcome(r, key, dep1))
        /\ Failed(DeleteOutcome(r, key, dep2), "ValueError")
        /\ Failed(DeleteOutcome(r, key, dep3), "ConcurrentUpdate")

\* C18 as stated: delete returns normally or fails with ValueError.
DeleteOkOrValueError ==
    \A r \in Replicas, key \in Keys : \A dep \in DepCandidates(r) :
        DeleteOutcome(r, key, dep).result \in {"ok", "ValueError"}

\* The UpdateMessages replica r has broadcast.
IssuedBy(r) == {m \in updates : m.sender = r}

\* A call at r on key that ended as out either wrote, and then it raised
\* the counter of r in knowledge by one, returned that version and
\* broadcast one UpdateMessage with it, or it left the counter and sent
\* nothing.
WroteOneOrNone(r, key, out) ==
    IF out.st.put \/ out.sent # {} \/ out.ver # NoVersion
    THEN /\ Succeeded(r, key, out)
         /\ out.st.knowledge[r] =
                [knowledge[r][r] EXCEPT !.prefix_max = @ + 1]
    ELSE out.st.knowledge[r] = knowledge[r][r]

\* The update and the delete of key at r with the versions dep.
WritesWith(r, key, value, dep) ==
    /\ WroteOneOrNone(r, key, UpdateOutcome(r, key, value, dep))
    /\ WroteOneOrNone(r, key, DeleteOutcome(r, key, dep))

Monotonicity ==
    [][\A r \in Replicas :
          /\ Contains(knowledge'[r], knowledge[r])
          /\ Dominates(visible'[r], visible[r])
          /\ Dominates(committed_visible'[r], committed_visible[r])]_vars

\* A replica has taken updates and completed a sync, and a read has since
\* raised its visible above committed_visible.
MonotonicityWitness ==
    \E r \in Replicas :
        /\ delivered[r] # {}
        /\ ~sync[r].sync_in_progress /\ reply_log[r].batch # None
        /\ visible[r] # committed_visible[r]

\* A step in which r takes a SyncComplete with the sender and cookie of its
\* sync in progress.
TakesMatchingComplete(r) ==
    \E resp \in responses : \E i \in 1..Len(resp.msgs) :
        /\ resp.msgs[i].type = "SyncComplete"
        /\ Matches(r, resp.sender, resp.msgs[i])
        /\ DeliverSyncReply(r, resp, i)

\* request_sync at r, whoever the peer, sends nothing and leaves the sync
\* fields of r as they are.
RequestSyncIgnored(r) ==
    \A peer \in Replicas \ {r}, cookie \in Cookies :
        RequestSyncOutcome(r, peer, cookie) = [sync |-> sync[r], sent |-> {}]

\* C21: request_sync called while a sync is in progress is a no-op: it sends
\* no message and leaves sync_replica, sync_cookie, the stored snapshot of the
\* server and all other state of the replica unchanged; and sync_in_progress
\* goes back to false only in a step that processes a SyncComplete with the
\* matching sender and cookie.
SyncReentry ==
    /\ [](\A r \in Replicas : sync[r].sync_in_progress => RequestSyncIgnored(r))
    /\ [][\A r \in Replicas :
            (sync[r].sync_in_progress /\ ~sync'[r].sync_in_progress)
                => TakesMatchingComplete(r)]_vars

\* A replica whose sync is pending, the SyncSetup taken, would ask another
\* peer, and nothing is sent.
SyncReentryWitness ==
    /\ \E r \in Replicas : \E peer \in Replicas \ {r, sync[r].sync_replica} :
          /\ sync[r].sync_in_progress
          /\ sync[r].sync_replica_knowledge # None
          /\ \A cookie \in Cookies : RequestSyncOutcome(r, peer, cookie).sent = {}

\* The cookies a sync reply can carry: those of the syncs and one of no sync.
ReplyCookies == 0..MaxSyncs

\* The sync replies on the bus, whoever they are for, with any cookie.
AnyReply ==
    UNION {{[resp.msgs[i] EXCEPT !.cookie = c] : i \in 1..Len(resp.msgs), c \in ReplyCookies} :
            resp \in responses}

\* A sync reply that is not of the sync in progress at r.
OutOfContext(r, sender_id, msg) ==
    \/ ~sync[r].sync_in_progress
    \/ sender_id # sync[r].sync_replica
    \/ msg.cookie # sync[r].sync_cookie

\* C22: a SyncSetup, SyncData or SyncComplete whose sender or cookie does not
\* match the sync in progress, or that arrives when no sync is in progress,
\* changes no replica state: knowledge, visible, committed_visible, the store
\* and the sync fields are as before, and the handler returns normally.
StaleReplyDropped ==
    \A r \in Replicas : \A sender_id \in Replicas \ {r} : \A msg \in AnyReply :
        OutOfContext(r, sender_id, msg) =>
            ProcessSyncReply(r, sender_id, msg) =
                SyncOutcome("ok", OpState(TRUE, FALSE, NoRecord, knowledge[r], visible[r],
                                          committed_visible[r]), sync[r])

\* A replica has completed a sync whose replies, a SyncData among them, are
\* still on the bus and can be delivered again, from the same peer with the
\* same cookie or from another peer.
StaleReplyDroppedWitness ==
    \E r \in Replicas : \E resp \in responses :
        /\ Completed(r, resp)
        /\ sync[r].sync_replica_knowledge = None
        /\ \E i \in 1..Len(resp.msgs) :
              /\ resp.msgs[i].type = "SyncData"
              /\ OutOfContext(r, resp.sender, resp.msgs[i])
              /\ resp.msgs[i] \in AnyReply

\* C23: handling a SyncRequest changes nothing on the responder. In every
\* step in which a replica answers a request, its knowledge, visible,
\* committed_visible, sync fields and every stored record, the timestamps
\* that are elided included, are after the step what they were before.
SyncRequestReadOnly ==
    [][\A resp \in responses' \ responses :
            /\ db'[resp.sender] = db[resp.sender]
            /\ knowledge'[resp.sender] = knowledge[resp.sender]
            /\ visible'[resp.sender] = visible[resp.sender]
            /\ committed_visible'[resp.sender] = committed_visible[resp.sender]
            /\ sync'[resp.sender] = sync[resp.sender]]_vars

\* A replica has answered a request with a SyncData whose timestamp it
\* elided, of a record that is stored with its timestamp.
SyncRequestReadOnlyWitness ==
    \E resp \in responses : \E i \in 1..Len(resp.msgs) :
        /\ resp.msgs[i].type = "SyncData"
        /\ resp.msgs[i].obj_ver.timestamp = None
        /\ Len(db[resp.sender][resp.msgs[i].key]) = 1
        /\ db[resp.sender][resp.msgs[i].key][1].version = resp.msgs[i].obj_ver.version
        /\ db[resp.sender][resp.msgs[i].key][1].timestamp # None

\* The operations of a replica that acquire update_lock around the changes
\* they make; read, request_sync, _process_sync_request and
\* _process_sync_response_setup never acquire it.
LockingHandlers ==
    {"create", "update", "delete", "_process_update", "_process_sync_response_data",
     "_process_sync_response_complete"}

HoldsUpdateLock(handler) == handler \in LockingHandlers

\* The handler deliver_message hands a sync reply to.
ReplyHandler(msg) ==
    IF msg.type = "SyncSetup" THEN "_process_sync_response_setup"
    ELSE IF msg.type = "SyncData" THEN "_process_sync_response_data"
    ELSE "_process_sync_response_complete"

\* Whether an operation that ends in st has changed the knowledge, visible,
\* committed_visible or the store of r.
Mutates(r, st) ==
    \/ st.put
    \/ st.knowledge # knowledge[r]
    \/ st.visible # visible[r]
    \/ st.committed_visible # committed_visible[r]

\* C24 as stated: every change to knowledge, visible, committed_visible or
\* the store of a replica is made by an operation that holds the replica's
\* update mutex: the advance of visible by the latch of a read, a create, and
\* the handler of every message that can be delivered.
MutationsUnderLock ==
    \A r \in Replicas :
        /\ \A key \in Keys :
              ReadOutcome(r, key).visible # visible[r] => HoldsUpdateLock("read")
        /\ \A key \in Keys, value \in Values :
              Mutates(r, CreateOutcome(r, key, value).st) => HoldsUpdateLock("create")
        /\ \A m \in updates :
              (m.sender # r /\ Mutates(r, ProcessUpdate(r, m)))
                  => HoldsUpdateLock("_process_update")
        /\ \A d \in RepliesFor(r) :
              Mutates(r, ProcessSyncReply(r, d.sender, d.msg).st)
                  => HoldsUpdateLock(ReplyHandler(d.msg))

\* C25: VersionSet normalization. After any sequence of insert_version,
\* merge and merge_one_version calls, in every element of the set no member
\* of extras is less than or equal to prefix_max, and prefix_max + 1 is not
\* in extras.
Normalized ==
    \A h \in SetHolders : \A id \in Replicas :
        /\ \A x \in knowledge[h][id].extras : x > knowledge[h][id].prefix_max
        /\ (knowledge[h][id].prefix_max + 1) \notin knowledge[h][id].extras

\* A set holds a prefix of two versions or more and an extra beyond a gap,
\* and holds every version of another set that is not empty.
NormalizedWitness ==
    \E h \in SetHolders : \E id \in SetIds :
        /\ knowledge[h][id].prefix_max >= 2
        /\ knowledge[h][id].extras # {}
        /\ Version(id, 1) \in delivered[h]
        /\ \E other \in SetHolders \ {h} :
              delivered[other] # {} /\ delivered[other] \subseteq delivered[h]

\* The versions of the inputs that are members of the set of h.
Members(h) == {ver \in VersionInputs : HasVersion(knowledge[h], ver)}

\* The version vectors over the ids and counters of the inputs.
VectorInputs == UNION {[D -> 1..MaxCounter] : D \in SUBSET SetIds}

\* Whether the set of h holds every version that vv dominates.
HoldsAllOf(h, vv) ==
    \A id \in DOMAIN vv : \A c \in 1..vv[id] : Version(id, c) \in Members(h)

\* C26: greatest contiguous prefix. For a VersionSet built by insert_version
\* calls (and by merges) and every replica id, the members of the set are the
\* versions handed to it, get_gcp()[id] is the largest n such that every
\* version (id,1)..(id,n) is a member, so (id, n+1) is not a member; and a
\* version vector is dominated by the set exactly when the set holds every
\* version the vector dominates, in which case get_gcp() dominates it.
GreatestContiguousPrefix ==
    \A h \in SetHolders :
        /\ Members(h) = delivered[h]
        /\ \A id \in SetIds :
              /\ \A c \in 1..Get(GetGcp(knowledge[h]), id) : Version(id, c) \in Members(h)
              /\ Version(id, Get(GetGcp(knowledge[h]), id) + 1) \notin Members(h)
        /\ \A vv \in VectorInputs :
              /\ DominatesVV(knowledge[h], vv) <=> HoldsAllOf(h, vv)
              /\ DominatesVV(knowledge[h], vv) => Dominates(GetGcp(knowledge[h]), vv)

\* A set built by inserts holds versions beyond a gap: (id,1), (id,2) and
\* (id,4) are members and (id,3) is not, and its prefix ends at 2.
GreatestContiguousPrefixWitness ==
    \E h \in SetHolders : \E id \in SetIds :
        /\ {Version(id, 1), Version(id, 2), Version(id, 4)} \subseteq delivered[h]
        /\ Version(id, 3) \notin delivered[h]
        /\ Get(GetGcp(knowledge[h]), id) = 2
        /\ knowledge[h][id].extras = {4}

\* No two of the versions of vs that are not in gone are of one replica.
OnePerReplica(vs, gone) ==
    \A x, y \in (1..Len(vs)) \ gone :
        x # y => vs[x].version.replica_id # vs[y].version.replica_id

\* The survivors of the second loop of the visibility engine, run on the
\* outcome s1 of the first, are of different replicas.
SurvivorsDistinct(s1) ==
    s1.ok => OnePerReplica(s1.versions, FilterStep2(s1.versions, 1, 2, {}).gone)

\* read, create, update and delete of key at r, the last two called with the
\* versions fv.vv that the visibility engine returns, fail no assertion.
ClientCallsPass(r, key, fv) ==
    /\ fv.ok
    /\ ReadOutcome(r, key).result = "ok"
    /\ \A value \in Values :
          /\ CreateOutcome(r, key, value).result # "AssertionError"
          /\ UpdateOutcome(r, key, value, fv.vv).result # "AssertionError"
    /\ DeleteOutcome(r, key, fv.vv).result # "AssertionError"

\* C27: no self-conflict. In every reachable state and for every key, the
\* surviving visible versions computed by the visibility engine contain at
\* most one version per replica id, so the assertion guarding resulting_vv
\* never fails in read, create, update, delete or insert_object, whether the
\* version inserted is a local one, one of an UpdateMessage or one of a
\* SyncData taken after its SyncSetup.
NoSelfConflict ==
    \A r \in Replicas :
        /\ \A key \in Keys :
              /\ SurvivorsDistinct(FilterStep1(db[r][key], 1, knowledge[r], visible[r],
                                               committed_visible[r], <<>>))
              /\ ClientCallsPass(r, key,
                        FilterVisibleVersions(db[r][key], knowledge[r], visible[r],
                                              committed_visible[r]))
        /\ \A m \in updates : m.sender # r => ProcessUpdate(r, m).ok
        /\ \A d \in RepliesFor(r) :
              (d.msg.type = "SyncData" /\ sync[r].sync_replica_knowledge # None)
                  => ProcessSyncReply(r, d.sender, d.msg).result = "ok"

\* A replica has taken two updates that one peer made to one key: its
\* record holds the later version alone, and a read returns one value.
NoSelfConflictWitness ==
    \E r \in Replicas : \E m1, m2 \in updates :
        /\ m1.key = m2.key
        /\ m1.sender = m2.sender
        /\ m1.sender # r
        /\ m1.obj_ver.version.counter < m2.obj_ver.version.counter
        /\ {m1.obj_ver.version, m2.obj_ver.version} \subseteq delivered[r]
        /\ Len(db[r][m1.key]) = 1
        /\ db[r][m1.key][1].version = m2.obj_ver.version
        /\ Len(ReadOutcome(r, m1.key).tuple.values) = 1

\* A record as the store may hold it at a replica whose committed_visible is
\* cv: with several versions each has its timestamp, and a version without
\* timestamp is alone and dominated by cv.
WellStamped(versions, cv) ==
    /\ Len(versions) > 1 => \A i \in 1..Len(versions) : versions[i].timestamp # None
    /\ \A i \in 1..Len(versions) :
          versions[i].timestamp = None =>
              Len(versions) = 1 /\ DominatesVersion(cv, versions[i].version)

\* An operation that ends in st puts no empty record, and the record it puts
\* is well stamped for the committed_visible it leaves.
PutsWellStamped(st) ==
    st.put => (Len(st.versions) > 0 /\ WellStamped(st.versions, st.committed_visible))

\* C28: stored-record timestamp invariant. In every reachable state every
\* record of a replica's store is non-empty (no operation puts an empty
\* record), a record with more than one version has a timestamp on every
\* version, and a version stored with an elided timestamp is the only version
\* of its record and is dominated by the replica's committed_visible.
StoredRecordTimestamps ==
    \A r \in Replicas :
        /\ \A key \in Keys : WellStamped(db[r][key], committed_visible[r])
        /\ \A key \in Keys, value \in Values : PutsWellStamped(CreateOutcome(r, key, value).st)
        /\ \A m \in updates : m.sender # r => PutsWellStamped(ProcessUpdate(r, m))
        /\ \A d \in RepliesFor(r) : PutsWellStamped(ProcessSyncReply(r, d.sender, d.msg).st)

\* A replica stores siblings of one key, each with its timestamp, and a
\* replica stores a record of one version whose timestamp is elided.
StoredRecordTimestampsWitness ==
    /\ \E r \in Replicas : \E key \in Keys :
          /\ Len(db[r][key]) = 2
          /\ db[r][key][1].timestamp # None
          /\ db[r][key][2].timestamp # None
    /\ \E r \in Replicas : \E key \in Keys :
          /\ Len(db[r][key]) = 1
          /\ db[r][key][1].timestamp = None
          /\ DominatesVersion(committed_visible[r], db[r][key][1].version)

\* The places of the SyncData messages of version of key in msgs.
SyncDataPlaces(msgs, key, version) ==
    {i \in 1..Len(msgs) :
        /\ msgs[i].type = "SyncData"
        /\ msgs[i].key = key
        /\ msgs[i].obj_ver.version = version}

\* msgs[i] is a SyncData of a version stored at r, sent with the value and
\* the timestamp it is stored with, or without timestamp when the version is
\* the only one of its record and committed_visible of r dominates it.
SyncDataAsStored(r, msgs, i) ==
    /\ msgs[i].type = "SyncData"
    /\ \E j \in 1..Len(db[r][msgs[i].key]) :
          /\ db[r][msgs[i].key][j].version = msgs[i].obj_ver.version
          /\ db[r][msgs[i].key][j].value = msgs[i].obj_ver.value
          /\ msgs[i].obj_ver.timestamp \in {None, db[r][msgs[i].key][j].timestamp}
    /\ msgs[i].obj_ver.timestamp = None =>
          /\ Len(db[r][msgs[i].key]) = 1
          /\ DominatesVersion(committed_visible[r], msgs[i].obj_ver.version)

\* msgs is what the spec says r sends for the request req_msg.
ResponseSequence(r, req_msg, msgs) ==
    /\ Len(msgs) >= 2
    /\ msgs[1] = SyncResponseSetupMessage(req_msg.cookie, knowledge[r], committed_visible[r])
    /\ msgs[Len(msgs)] = SyncResponseCompleteMessage(req_msg.cookie)
    /\ \A i \in 2..(Len(msgs) - 1) :
          msgs[i].cookie = req_msg.cookie /\ SyncDataAsStored(r, msgs, i)
    /\ \A key \in Keys : \A j \in 1..Len(db[r][key]) :
          Cardinality(SyncDataPlaces(msgs, key, db[r][key][j].version)) =
              IF HasVersion(req_msg.requestor_knowledge, db[r][key][j].version) THEN 0 ELSE 1

\* C29: sync response sequence. For one SyncRequest the responder sends, in
\* this order, exactly one SyncSetup carrying its knowledge and
\* committed_visible, then exactly one SyncData for each ObjectVersion of its
\* store whose version is not in the requestor's knowledge and none for a
\* version that is, then exactly one SyncComplete, all with the cookie of the
\* request; a SyncData has an elided timestamp only when its version is the
\* sole version of its record and is dominated by the committed_visible sent
\* in the SyncSetup.
SyncResponseSequence ==
    \A r \in Replicas : \A peer \in Replicas \ {r} : \A cookie \in ReplyCookies :
        ResponseSequence(r, SyncRequestMessage(peer, r, cookie, knowledge[peer]),
            SyncResponse(r, SyncRequestMessage(peer, r, cookie, knowledge[peer])))

\* A replica has answered a request with a SyncData without timestamp and a
\* SyncData with one, and has sent no SyncData for a version it stores that
\* the requestor knows.
SyncResponseSequenceWitness ==
    \E resp \in responses :
        /\ \E i \in 1..Len(resp.msgs) :
              resp.msgs[i].type = "SyncData" /\ resp.msgs[i].obj_ver.timestamp = None
        /\ \E i \in 1..Len(resp.msgs) :
              resp.msgs[i].type = "SyncData" /\ resp.msgs[i].obj_ver.timestamp # None
        /\ \E key \in Keys : \E j \in 1..Len(db[resp.sender][key]) :
              /\ HasVersion(knowledge[resp.dest], db[resp.sender][key][j].version)
              /\ SyncDataPlaces(resp.msgs, key, db[resp.sender][key][j].version) = {}
        /\ resp.msgs = SyncResponse(resp.sender,
                            SyncRequestMessage(resp.dest, resp.sender, resp.msgs[1].cookie,
                                               knowledge[resp.dest]))

\* Whether the record versions holds the version ver.
HoldsVersion(versions, ver) == \E j \in 1..Len(versions) : versions[j].version = ver

\* The record of key at r with its timestamps restored and obj_ver appended,
\* as _insert_object has it before its last loop.
Appended(r, key, obj_ver) ==
    Append(RestoreTimestamps(db[r][key], committed_visible[r]), obj_ver)

\* What the visibility engine gives for that record when visible was visible0
\* on entry of _insert_object.
AppendedFiltered(r, key, obj_ver, visible0) ==
    FilterVisibleVersions(Appended(r, key, obj_ver),
        InsertVersion(knowledge[r], obj_ver.version),
        IF DominatesVV(InsertVersion(knowledge[r], obj_ver.version), obj_ver.timestamp)
        THEN Update(visible0, obj_ver.timestamp)
        ELSE visible0,
        committed_visible[r])

\* _insert_object, given the record appended and ending in st, put a record
\* that is not empty; a version it removed is not among the surviving
\* visible versions fv.vv and is dominated by visible; and a version that
\* visible does not dominate is still in the record.
Retention(appended, st, fv) ==
    /\ st.ok /\ st.put /\ Len(st.versions) > 0
    /\ \A i \in 1..Len(appended) :
          /\ ~HoldsVersion(st.versions, appended[i].version) =>
                /\ DominatesVersion(st.visible, appended[i].version)
                /\ GetVersion(fv.vv, appended[i].version.replica_id) # appended[i].version
          /\ ~DominatesVersion(st.visible, appended[i].version) =>
                HoldsVersion(st.versions, appended[i].version)
    /\ \A j \in 1..Len(st.versions) : HoldsVersion(appended, st.versions[j].version)

\* Retention for the version that a local update of key at r, called with
\* the versions a read shows, inserts and broadcasts.
LocalRetention(r, key, out) ==
    \A msg \in out.sent :
        Retention(Appended(r, key, msg.obj_ver), out.st,
                  AppendedFiltered(r, key, msg.obj_ver, VisibleOnceFiltered(r, key)))

\* C30: insert_object retention. insert_object removes a version from the
\* record only if it is not among the surviving visible versions and visible
\* dominates it; a version that visible does not yet dominate stays in the
\* record even when the timestamp of another version dominates it; and the
\* record is never left empty. Checked for the insert of every UpdateMessage
\* that can be delivered and of the version of a local update.
InsertRetention ==
    \A r \in Replicas :
        /\ \A m \in updates :
              (m.sender # r /\ ~HasVersion(knowledge[r], m.obj_ver.version)) =>
                  Retention(Appended(r, m.key, m.obj_ver), ProcessUpdate(r, m),
                            AppendedFiltered(r, m.key, m.obj_ver, visible[r]))
        /\ \A key \in Keys, value \in Values :
              LocalRetention(r, key, UpdateOutcome(r, key, value, VisibleDeps(r, key)))

\* A record holds two versions that visible does not dominate, and the
\* timestamp of one dominates the other: both were kept.
InsertRetentionWitness ==
    \E r \in Replicas : \E key \in Keys : \E x, y \in 1..Len(db[r][key]) :
        /\ x # y
        /\ ~DominatesVersion(visible[r], db[r][key][x].version)
        /\ db[r][key][y].timestamp # None
        /\ DominatesVersion(db[r][key][y].timestamp, db[r][key][x].version)

\* The vector vv with an entry of counter 0 for id, as update_version makes
\* it for a replica id the vector does not hold.
WithZeroEntry(vv, id) == UpdateVersion(vv, Version(id, 0))

\* C31 as stated: version vectors are compared as mappings in which an
\* absent replica reads as 0. An update or delete of a key called with the
\* key's current dependent versions and an entry of counter 0 for one more
\* replica is treated as called with the dependent versions themselves and
\* does not fail with ConcurrentUpdate.
ZeroEntryIgnored ==
    \A r \in Replicas : \A key \in Keys :
        db[r][key] # NoRecord =>
            \A id \in Replicas \ DOMAIN VisibleDeps(r, key) :
                /\ \A value \in Values :
                      UpdateOutcome(r, key, value, WithZeroEntry(VisibleDeps(r, key), id)).result
                          # "ConcurrentUpdate"
                /\ DeleteOutcome(r, key, WithZeroEntry(VisibleDeps(r, key), id)).result
                          # "ConcurrentUpdate"

\* The operation that ends in st on the replica and in ref on the reference
\* replica leaves the same state but for the timestamps: the same versions
\* and values in the record, the same knowledge, visible and
\* committed_visible.
SameButTimestamps(st, ref) ==
    /\ st.ok /\ ref.ok
    /\ st.put = ref.put
    /\ st.knowledge = ref.knowledge
    /\ st.visible = ref.visible
    /\ st.committed_visible = ref.committed_visible
    /\ Len(st.versions) = Len(ref.versions)
    /\ \A i \in 1..Len(st.versions) :
          /\ st.versions[i].version = ref.versions[i].version
          /\ st.versions[i].value = ref.versions[i].value

\* The visibility engine gives the same versions, values and visible on the
\* record of key at r and on that record with its original timestamps.
ReadsAsReference(r, key) ==
    FilterVisibleVersions(db[r][key], knowledge[r], visible[r], committed_visible[r])
        = FilterVisibleVersions(Original(db[r][key]), knowledge[r], visible[r],
                                committed_visible[r])

\* The version that the local update ending in out wrote goes into the
\* record of the reference replica as it went into the record of r.
LocalAsReference(r, key, out) ==
    \A msg \in out.sent :
        SameButTimestamps(out.st,
            ReferenceInsertObject(Original(db[r][key]), msg.obj_ver, knowledge[r],
                                  VisibleOnceFiltered(r, key), committed_visible[r]))

\* C32: timestamp elision within a replica is unobservable. In every state
\* reached by client operations and update deliveries, every read returns the
\* dependent_versions and values it returns on the record with the original
\* timestamps, and every local write and every UpdateMessage that can be
\* taken leaves the replica and a reference replica that never elides a
\* timestamp with the same versions, values, knowledge, visible and
\* committed_visible.
ElisionUnobservable ==
    \A r \in Replicas :
        /\ \A key \in Keys :
              /\ ReadsAsReference(r, key)
              /\ \A value \in Values :
                    LocalAsReference(r, key, UpdateOutcome(r, key, value, VisibleDeps(r, key)))
        /\ \A m \in updates :
              (m.sender # r /\ ~HasVersion(knowledge[r], m.obj_ver.version)) =>
                  SameButTimestamps(ProcessUpdate(r, m),
                      ReferenceInsertObject(Original(db[r][m.key]), m.obj_ver, knowledge[r],
                                            visible[r], committed_visible[r]))

\* A replica stores a version of another replica without its timestamp, and
\* the UpdateMessage of a version of the same key that does not replace it
\* is still to be taken: the timestamp will be restored.
ElisionUnobservableWitness ==
    \E r \in Replicas : \E key \in Keys : \E m \in updates :
        /\ Len(db[r][key]) = 1
        /\ db[r][key][1].timestamp = None
        /\ db[r][key][1].version.replica_id # r
        /\ m.key = key
        /\ m.sender # r
        /\ ~HasVersion(knowledge[r], m.obj_ver.version)
        /\ ~DominatesVersion(m.obj_ver.timestamp, db[r][key][1].version)

\* What a read of the key returns once an operation on it has ended in st.
ReadAfter(st) ==
    ReadFiltered(FilterVisibleVersions(st.versions, st.knowledge, st.visible,
                                       st.committed_visible)).tuple

\* The version of a SyncData as the requestor inserts it after the SyncSetup
\* setup of the same answer.
SyncDataAfterSetup(obj_ver, setup) ==
    IF obj_ver.timestamp = None
    THEN [obj_ver EXCEPT !.timestamp = setup.server_visible]
    ELSE obj_ver

\* A read of the key after r has taken the SyncSetup and the SyncData
\* msgs[i] of an answer returns what it returns on the reference replica,
\* which was sent the version with its original timestamp.
SyncDataAsReference(r, msgs, i) ==
    ReadAfter(InsertObject(db[r][msgs[i].key], SyncDataAfterSetup(msgs[i].obj_ver, msgs[1]),
                           knowledge[r], visible[r], committed_visible[r]))
        = ReadAfter(ReferenceInsertObject(Original(db[r][msgs[i].key]),
                        [msgs[i].obj_ver EXCEPT
                            !.timestamp = OriginalTimestamp(msgs[i].obj_ver.version)],
                        knowledge[r], visible[r], committed_visible[r]))

\* C32 as stated: elision is unobservable in syncs too. What holds of local
\* writes and UpdateMessages holds of every SyncData a requestor can take
\* after the SyncSetup of its answer: the read that follows returns the same
\* dependent_versions and values as on the reference replica.
ElisionUnobservableInSync ==
    /\ ElisionUnobservable
    /\ \A resp \in responses : \A i \in 1..Len(resp.msgs) :
          (/\ resp.msgs[i].type = "SyncData"
           /\ Matches(resp.dest, resp.sender, resp.msgs[i])
           /\ ~HasVersion(knowledge[resp.dest], resp.msgs[i].obj_ver.version))
              => SyncDataAsReference(resp.dest, resp.msgs, i)

\* ------------------------------------------------------------------------ C33
\* update(key, value, d) and delete(key, d) at replica r straight after a read
\* of key at r that left visible at vis and returned d.
UpdateAfterRead(r, key, value, vis, d) ==
    LocalUpdate(r, db[r][key], key, value, d, knowledge[r], vis, committed_visible[r])

\* The key's visible versions at replica r are all tombstones, and there is one.
OnlyTombstonesVisible(r, key) ==
    /\ FilterVisibleVersions(db[r][key], knowledge[r], visible[r],
                             committed_visible[r]).vv # EmptyVV
    /\ ReadOutcome(r, key).tuple.values = <<>>

RoundTripResults(r, key) ==
    {UpdateAfterRead(r, key, value, ReadOutcome(r, key).visible,
                     ReadOutcome(r, key).tuple.dependent_versions).result :
        value \in Values \cup {NoneValue}}

WriteFailures == {"DuplicateKey", "NoSuchKey", "ConcurrentUpdate", "ValueError"}

\* visible as a call on key leaves it at r by the latch of the visibility
\* engine, which a call on a key without a record does not run.
LatchedVisible(r, key) ==
    IF db[r][key] = NoRecord THEN visible[r] ELSE VisibleOnceFiltered(r, key)

\* The call failed and changed nothing but visible, which it latched.
FailedCleanly(r, key, out) ==
    out.result \in WriteFailures =>
        /\ ~out.st.put
        /\ out.st.knowledge = knowledge[r]
        /\ out.st.committed_visible = committed_visible[r]
        /\ out.ver = NoVersion
        /\ out.sent = {}
        /\ out.st.visible = LatchedVisible(r, key)
        /\ Dominates(out.st.visible, visible[r])
        /\ ~UpdateLockHeldAfter(out.result)

Unanswered(r, req_msg) ==
    /\ req_msg.dest = r
    /\ \A resp \in responses :
          ~(resp.sender = r /\ resp.dest = req_msg.sender
              /\ resp.msgs[1].cookie = req_msg.cookie)

\* A write or a delivery, under update_lock on another thread of r, takes r
\* from this state to the next one.
MutatedMeanwhile(r) ==
    <<db[r], knowledge[r], committed_visible[r]>>'
        # <<db[r], knowledge[r], committed_visible[r]>>

\* _process_sync_request holds no lock. The SyncSetup it sends when the other
\* thread's step falls between its copy of knowledge and its copy of
\* committed_visible.
SyncSetupAcross(r, req_msg) ==
    SyncResponseSetupMessage(req_msg.cookie, knowledge[r], committed_visible'[r])

\* The SyncData it sends when the other thread's step falls between the
\* SyncSetup and the loop over the keys: the records and committed_visible
\* are those after the step.
SyncDataAfter(r, req_msg) ==
    SyncDataFrom(r, req_msg.cookie, 1, req_msg.requestor_knowledge)'

\* Every SyncData without a timestamp has a version that server_visible
\* dominates.
ElidedDominated(msgs, server_visible) ==
    \A i \in 1..Len(msgs) :
        msgs[i].obj_ver.timestamp = None =>
            DominatesVersion(server_visible, msgs[i].obj_ver.version)

\* C35: when the responder handles a SyncRequest while a local write or a
\* message delivery runs on another thread of it, the server_knowledge of the
\* SyncSetup it sends dominates the server_visible sent with it, and every
\* SyncData it sends without a timestamp has a version that this
\* server_visible dominates.
SyncSnapshotConsistent ==
    [][\A r \in Replicas : \A req_msg \in requests :
          Unanswered(r, req_msg) /\ MutatedMeanwhile(r) =>
              /\ DominatesVV(SyncSetupAcross(r, req_msg).server_knowledge,
                             SyncSetupAcross(r, req_msg).server_visible)
              /\ ElidedDominated(SyncDataAfter(r, req_msg), committed_visible[r])]_vars

====
